---- MODULE Spec2Model ----
(***************************************************************************)
(* Model of the MaraDocs TypeScript SDK: the job client (FetchWrapper.post *)
(* and FetchWrapper.pollResult behind every endpoint wrapper), the         *)
(* validation-result unwrappers, QuadrilateralUtils.fromUnsorted and the   *)
(* Flow pipelines built on the endpoint wrappers.                          *)
(***************************************************************************)
EXTENDS Integers, Sequences, FiniteSets, TLC

(***************************************************************************)
(* Program constants and model bounds                                      *)
(***************************************************************************)
MAX_RETRIES == 120

\* number of endpoint operations one behaviour of Spec calls in sequence
MaxCalls == 2

(***************************************************************************)
(* HTTP vocabulary: the statuses and bodies the server may answer with     *)
(***************************************************************************)
Statuses == {200, 201, 202, 204, 404, 500}

\* a response body: json = FALSE is a body res.json() rejects
NotJson == [json |-> FALSE, data |-> [none |-> 0]]
Json(d) == [json |-> TRUE, data |-> d]

\* error envelopes {status_code, api_error:{code,name,message}}; the second
\* one carries a key the schema does not know
Envelope1 ==
  [status_code |-> 404,
   api_error |-> [code |-> 101, name |-> "FILE_HANDLE_EXPIRED", message |-> "handle expired"]]
Envelope2 ==
  [status_code |-> 400,
   api_error |-> [code |-> 301, name |-> "PDF_TOO_LARGE", message |-> "too large"],
   detail |-> "extra"]
\* valid JSON that is neither a result nor an error envelope
Unexpected == [unexpected |-> 0]

(***************************************************************************)
(* zod schemas: an object schema accepts a JSON object that has its keys   *)
(* and returns the object restricted to those keys (unknown keys stripped) *)
(***************************************************************************)
ErrorSchemas == [HttpErrorResponseSchema |-> {"status_code", "api_error"}]

MiscSchemas == [TaskCreatedResponseSchema |-> {"job_id"}]

ImgSchemas ==
  [ImgValidateResponseSchema |-> {"class_name", "response"},
   ImgFindDocumentsResponseSchema |-> {"documents"},
   ImgExtractQuadrilateralResponseSchema |-> {"img_handle"},
   ImgOcrToPdfResponseSchema |-> {"pdf_handle"}]

PdfSchemas ==
  [PdfValidateResponseSchema |-> {"class_name", "response"},
   PdfComposeResponseSchema |-> {"pdf_handle"},
   PdfOptimizeResponseSchema |-> {"pdf_handle"},
   PdfOcrToPdfResponseSchema |-> {"pdf_handle"},
   PdfOrientationResponseSchema |-> {"orientations", "rotated_pdf_handle"}]

HtmlSchemas == [HtmlToPdfResponseSchema |-> {"pdf_handle"}]

DataSchemas ==
  [DataUploadResponseSchema |-> {"post_url", "post_header", "unvalidated_file_handle"}]

\* the answers to a download request: {url, headers}
DataDownloadSchemas ==
  [DataDownloadPdfResponseSchema |-> {"url", "headers"},
   DataDownloadJpegResponseSchema |-> {"url", "headers"},
   DataDownloadPngResponseSchema |-> {"url", "headers"},
   DataDownloadOdtResponseSchema |-> {"url", "headers"},
   DataDownloadUnvalidatedResponseSchema |-> {"url", "headers"}]

\* the keys of the object schema of the given name
SchemaKeys(schema) ==
  (ErrorSchemas @@ MiscSchemas @@ ImgSchemas @@ PdfSchemas @@ HtmlSchemas
     @@ DataSchemas @@ DataDownloadSchemas)[schema]

Matches(schema, data) == SchemaKeys(schema) \subseteq DOMAIN data

parse(schema, data) == [k \in SchemaKeys(schema) |-> data[k]]

(***************************************************************************)
(* Errors                                                                  *)
(***************************************************************************)
ApiErrorException(status_code, api_error) ==
  [name |-> "ApiErrorException",
   message |-> <<"[", api_error.code, "] ", api_error.name, ": ", api_error.message>>,
   status_code |-> status_code,
   api_error |-> api_error]

fromHttpResponse(response) ==
  ApiErrorException(response.status_code, response.api_error)

HttpError(status) ==
  [name |-> "Error", message |-> <<"HTTP error! status: ", status>>]

PollTimeout ==
  [name |-> "Error", message |-> <<"Failed processing the request in a reasonable time">>]

\* the error schema.parse throws on a body that does not match
ZodError == [name |-> "ZodError", message |-> <<"schema mismatch">>]
\* the error res.json() throws on a body that is not JSON
SyntaxError == [name |-> "SyntaxError", message |-> <<"invalid json">>]

Returned(v) == [kind |-> "return", value |-> <<v>>, error |-> <<>>]
Thrown(e) == [kind |-> "throw", value |-> <<>>, error |-> <<e>>]
Continue == [kind |-> "continue", value |-> <<>>, error |-> <<>>]
Pending == [kind |-> "pending", value |-> <<>>, error |-> <<>>]

\* errorResponse with the raw HTTP status put in place of the envelope's
errorResponse_rawStatus(status, body) ==
  IF body.json /\ Matches("HttpErrorResponseSchema", body.data)
    THEN Thrown(ApiErrorException(status,
                  parse("HttpErrorResponseSchema", body.data).api_error))
    ELSE Thrown(HttpError(status))

\* the try/catch that ends FetchWrapper.request and FetchWrapper.pollResult
errorResponse(status, body) ==
  IF body.json /\ Matches("HttpErrorResponseSchema", body.data)
    THEN Thrown(fromHttpResponse(parse("HttpErrorResponseSchema", body.data)))
    ELSE Thrown(HttpError(status))

(***************************************************************************)
(* FetchWrapper.request, from the response of fetch on                     *)
(***************************************************************************)
\* request accepting 200 only
request_only200(status, body, schema) ==
  IF status = 200
    THEN IF ~body.json THEN Thrown(SyntaxError)
         ELSE IF Matches(schema, body.data)
           THEN Returned(parse(schema, body.data))
           ELSE Thrown(ZodError)
    ELSE errorResponse(status, body)

request(status, body, schema) ==
  IF status = 200 \/ status = 201
    THEN IF ~body.json THEN Thrown(SyntaxError)
         ELSE IF Matches(schema, body.data)
           THEN Returned(parse(schema, body.data))
           ELSE Thrown(ZodError)
    ELSE errorResponse(status, body)

(***************************************************************************)
(* One iteration of the loop of FetchWrapper.pollResult, from the response *)
(* of fetch on; rc is retry_count before the iteration                     *)
(***************************************************************************)
\* pollResult giving up one 202 early (>= in place of >)
pollResult_ceilingOffByOne(status, body, schema, rc) ==
  IF status = 200
    THEN IF ~body.json THEN Thrown(SyntaxError)
         ELSE IF Matches(schema, body.data)
           THEN Returned(parse(schema, body.data))
           ELSE Thrown(ZodError)
    ELSE IF status = 202
      THEN IF rc + 1 >= MAX_RETRIES THEN Thrown(PollTimeout) ELSE Continue
      ELSE errorResponse(status, body)

\* pollResult returning the body as received, schema.parse left out
pollResult_unparsed(status, body, schema, rc) ==
  IF status = 200
    THEN IF ~body.json THEN Thrown(SyntaxError)
         ELSE IF Matches(schema, body.data)
           THEN Returned(body.data)
           ELSE Thrown(ZodError)
    ELSE IF status = 202
      THEN IF rc + 1 > MAX_RETRIES THEN Thrown(PollTimeout) ELSE Continue
      ELSE errorResponse(status, body)

\* pollResult taking a 200 whose body fails the schema for a pending answer
pollResult_mismatchIsPending(status, body, schema, rc) ==
  IF status = 200 /\ body.json /\ Matches(schema, body.data)
    THEN Returned(parse(schema, body.data))
    ELSE IF status \in {200, 202}
      THEN IF rc + 1 > MAX_RETRIES THEN Thrown(PollTimeout) ELSE Continue
      ELSE errorResponse(status, body)

pollResult(status, body, schema, rc) ==
  IF status = 200
    THEN IF ~body.json THEN Thrown(SyntaxError)
         ELSE IF Matches(schema, body.data)
           THEN Returned(parse(schema, body.data))
           ELSE Thrown(ZodError)
    ELSE IF status = 202
      THEN IF rc + 1 > MAX_RETRIES THEN Thrown(PollTimeout) ELSE Continue
      ELSE errorResponse(status, body)

(***************************************************************************)
(* Handles, validation results and the result unwrappers                   *)
(***************************************************************************)
Handle(kind, n) == [kind |-> kind, n |-> n]

ValidationErrorException(message) ==
  [name |-> "ValidationErrorException", message |-> message]

ValidationVirusException(message) ==
  [name |-> "ValidationVirusException", message |-> message]

\* what a function without a return statement yields
Undefined == "undefined"

\* okHtml with the two exception classes exchanged
okHtml_swapped(response) ==
  IF response.response.class_name = "HtmlValidateResponseOk"
    THEN Returned(response.response.html_handle)
    ELSE IF response.response.class_name = "HtmlValidateResponseError"
      THEN Thrown(ValidationVirusException(response.response.error))
      ELSE IF response.response.class_name = "HtmlValidateResponseVirus"
        THEN Thrown(ValidationErrorException(response.response.virus))
        ELSE Thrown(ValidationErrorException("Unknown validation response type"))

\* okHtml without its final throw
okHtml_noDefault(response) ==
  IF response.response.class_name = "HtmlValidateResponseOk"
    THEN Returned(response.response.html_handle)
    ELSE IF response.response.class_name = "HtmlValidateResponseError"
      THEN Thrown(ValidationErrorException(response.response.error))
      ELSE IF response.response.class_name = "HtmlValidateResponseVirus"
        THEN Thrown(ValidationVirusException(response.response.virus))
        ELSE Returned(Undefined)

okHtml(response) ==
  IF response.response.class_name = "HtmlValidateResponseOk"
    THEN Returned(response.response.html_handle)
    ELSE IF response.response.class_name = "HtmlValidateResponseError"
      THEN Thrown(ValidationErrorException(response.response.error))
      ELSE IF response.response.class_name = "HtmlValidateResponseVirus"
        THEN Thrown(ValidationVirusException(response.response.virus))
        ELSE Thrown(ValidationErrorException("Unknown validation response type"))

\* okEmail replacing the server's error message by one of its own
okEmail_ownMessage(response) ==
  IF response.response.class_name = "EmailValidateResponseOk"
    THEN Returned(response.response.email_handle)
    ELSE IF response.response.class_name = "EmailValidateResponseError"
      THEN Thrown(ValidationErrorException("Email validation failed"))
      ELSE IF response.response.class_name = "EmailValidateResponseVirus"
        THEN Thrown(ValidationVirusException(response.response.virus))
        ELSE Thrown(ValidationErrorException("Unknown validation response type"))

okEmail(response) ==
  IF response.response.class_name = "EmailValidateResponseOk"
    THEN Returned(response.response.email_handle)
    ELSE IF response.response.class_name = "EmailValidateResponseError"
      THEN Thrown(ValidationErrorException(response.response.error))
      ELSE IF response.response.class_name = "EmailValidateResponseVirus"
        THEN Thrown(ValidationVirusException(response.response.virus))
        ELSE Thrown(ValidationErrorException("Unknown validation response type"))

\* the default message of okImg and okPdf is the documented one
okImg(response) ==
  IF response.response.class_name = "ImgValidateResponseOk"
    THEN Returned(response.response.img_handle)
    ELSE IF response.response.class_name = "ImgValidateResponseError"
      THEN Thrown(ValidationErrorException(response.response.error))
      ELSE IF response.response.class_name = "ImgValidateResponseVirus"
        THEN Thrown(ValidationVirusException(response.response.virus))
        ELSE Thrown(ValidationErrorException("unknown validation response type"))

okPdf(response) ==
  IF response.response.class_name = "PdfValidateResponseOk"
    THEN Returned(response.response.pdf_handle)
    ELSE IF response.response.class_name = "PdfValidateResponseError"
      THEN Thrown(ValidationErrorException(response.response.error))
      ELSE IF response.response.class_name = "PdfValidateResponseVirus"
        THEN Thrown(ValidationVirusException(response.response.virus))
        ELSE Thrown(ValidationErrorException("unknown validation response type"))

(***************************************************************************)
(* Endpoint wrappers: every operation is wrap.post(path, req,              *)
(* TaskCreatedResponseSchema) followed by wrap.pollResult(path/job_id,     *)
(* result schema)                                                          *)
(***************************************************************************)
Ep(path, schema) == [path |-> path, schema |-> schema]

ImgEp ==
  [validate |-> Ep("/img/validate", "ImgValidateResponseSchema"),
   findDocuments |-> Ep("/img/find/documents", "ImgFindDocumentsResponseSchema"),
   extractQuadrilateral |->
     Ep("/img/extract/quadrilateral", "ImgExtractQuadrilateralResponseSchema"),
   ocrToPdf |-> Ep("/img/ocr/pdf", "ImgOcrToPdfResponseSchema")]

PdfEp ==
  [validate |-> Ep("/pdf/validate", "PdfValidateResponseSchema"),
   compose |-> Ep("/pdf/compose", "PdfComposeResponseSchema"),
   optimize |-> Ep("/pdf/optimize", "PdfOptimizeResponseSchema"),
   orientation |-> Ep("/pdf/orientation", "PdfOrientationResponseSchema"),
   ocrToPdf |-> Ep("/pdf/ocr/pdf", "PdfOcrToPdfResponseSchema")]

HtmlEp == [toPdf |-> Ep("/html/to/pdf", "HtmlToPdfResponseSchema")]

\* the operations by the names the callers use
Endpoint(o) ==
  CASE o = "ImgEp.validate" -> ImgEp.validate
    [] o = "ImgEp.findDocuments" -> ImgEp.findDocuments
    [] o = "ImgEp.extractQuadrilateral" -> ImgEp.extractQuadrilateral
    [] o = "ImgEp.ocrToPdf" -> ImgEp.ocrToPdf
    [] o = "PdfEp.validate" -> PdfEp.validate
    [] o = "PdfEp.compose" -> PdfEp.compose
    [] o = "PdfEp.orientation" -> PdfEp.orientation
    [] o = "PdfEp.ocrToPdf" -> PdfEp.ocrToPdf
    [] o = "PdfEp.optimize" -> PdfEp.optimize
    [] o = "HtmlEp.toPdf" -> HtmlEp.toPdf

EpPath(o) == Endpoint(o).path
EpSchema(o) == Endpoint(o).schema

\* `${path}/${task.job_id}`
StatusPath(p, job_id) == <<p, "/", job_id>>

(***************************************************************************)
(* State                                                                   *)
(***************************************************************************)
VARIABLES
  entry,        \* the public method the application called
  calls,        \* number of calls the application has made
  fpc,          \* the await the called method is suspended at
  frame,        \* the locals of the Flow method
  outcome,      \* what the call returned or threw
  op,           \* the endpoint operation in progress
  wpc,          \* FetchWrapper: "post" (request awaits fetch), "poll" (pollResult awaits fetch)
  task,         \* the TaskCreatedResponse of the operation in progress
  retry_count,  \* the local of pollResult
  inflight,     \* the HTTP request awaiting its response
  submitted,    \* the job submissions (POSTs) issued so far, in order
  returned,     \* the values pollResult returned for them, in order
  nSubmit,      \* server side: jobs created so far (the source of job ids)
  lastRes,      \* the last HTTP response the client handled
  n202,         \* 202 responses received by the pollResult call in progress
  nStatus,      \* status requests issued by the pollResult call in progress
  response,     \* the validation response handed to an unwrapper
  unwrapper,    \* the unwrapper applied to it
  unwrapped,    \* what the unwrapper returned or threw
  points,       \* the array handed to QuadrilateralUtils.fromUnsorted
  quadrilateral,\* what fromUnsorted returned or threw
  dpc,          \* DataEp: the await or the event the called method waits for
  xhr,          \* DataEp.upload: typeof XMLHttpRequest !== "undefined"
  requests,     \* the HTTP requests the DataEp method has issued, in order
  transfer,     \* the locals of the transfer under way
  progress,     \* the values on_progress was called with, in order
  settled,      \* what the promise of the DataEp method settled with
  email,        \* the EmailHandle handed to collectUnvalidatedFileHandles
  collected     \* what collectUnvalidatedFileHandles returned

callVars == <<entry, calls>>
flowVars == <<fpc, frame, outcome>>
jobVars == <<op, wpc, task, inflight, submitted>>
pollVars == <<retry_count, n202, nStatus>>
dataVars == <<dpc, xhr, requests, transfer, progress, settled>>
clientVars == <<entry, calls, fpc, frame, outcome, op, wpc, task, retry_count,
                inflight, submitted, returned, nSubmit, lastRes, n202, nStatus>>
unwrapVars == <<response, unwrapper, unwrapped>>
quadVars == <<points, quadrilateral>>
emailVars == <<email, collected>>
pureVars == <<unwrapVars, quadVars, emailVars>>
vars == <<clientVars, unwrapVars, quadVars, dataVars, emailVars>>

\* di and ci are the positions of the two for-of loops of ocrImgHandle
NoFrame ==
  [options |-> <<>>, imgHandle |-> <<>>, extractDocument |-> FALSE,
   docs |-> <<>>, di |-> 0, imgHandles |-> <<>>, ci |-> 0, pdfHandles |-> <<>>,
   pdfHandle |-> <<>>]

ClientInit ==
  /\ entry = "none" /\ calls = 0
  /\ fpc = "idle" /\ frame = NoFrame /\ outcome = Pending
  /\ op = "none" /\ wpc = "none" /\ task = <<>> /\ inflight = <<>>
  /\ submitted = <<>> /\ returned = <<>>
  /\ retry_count = 0 /\ n202 = 0 /\ nStatus = 0
  /\ nSubmit = 0 /\ lastRes = <<>>

\* no unwrapper and no fromUnsorted call is under way
UnwrapIdle == response = <<>> /\ unwrapper = "none" /\ unwrapped = Pending
QuadIdle == points = <<>> /\ quadrilateral = Pending
EmailIdle == email = <<>> /\ collected = Pending

\* the locals of DataEp.upload and DataEp.downloadBinary: the descriptor the
\* first request returned, the status the storage answered with and the body
\* uploadWithFetch read from it, the Content-Length, the chunks read and
\* their total length, the last upload progress event; reader tells that
\* response.body.getReader() was called
NoTransfer ==
  [method |-> "none", file |-> <<>>, response |-> <<>>, status |-> <<>>,
   body |-> <<>>, total |-> <<>>, reader |-> FALSE, chunks |-> <<>>, loaded |-> 0,
   events |-> 0]

\* no DataEp method is under way
DataIdle ==
  /\ dpc = "idle" /\ xhr = FALSE /\ requests = <<>> /\ transfer = NoTransfer
  /\ progress = <<>> /\ settled = Pending

Init == ClientInit /\ UnwrapIdle /\ QuadIdle /\ DataIdle /\ EmailIdle

(***************************************************************************)
(* The server: what it may answer                                          *)
(***************************************************************************)
\* detected documents: quadrilaterals are told apart by an identifier
MaxDocs == 2
Quads == 1..MaxDocs
Doc(q) == [quadrilateral |-> q, confidence |-> 1]
\* the lists of detected documents: up to MaxDocs distinct quadrilaterals in
\* any order
DocLists ==
  {d \in UNION {[1..n -> {Doc(q) : q \in Quads}] : n \in 0..MaxDocs} :
     \A i, j \in 1..Len(d) : i # j => d[i] # d[j]}

\* the result bodies of job j of operation o
ServerData(o, j) ==
  CASE o = "ImgEp.validate" ->
         {[class_name |-> "ImgValidateResponse", response |-> r] : r \in
            {[class_name |-> "ImgValidateResponseOk", img_handle |-> Handle("img", j)],
             [class_name |-> "ImgValidateResponseError", error |-> "not an image"],
             [class_name |-> "ImgValidateResponseVirus", virus |-> "EICAR"]}}
    [] o = "PdfEp.validate" ->
         {[class_name |-> "PdfValidateResponse", response |-> r] : r \in
            {[class_name |-> "PdfValidateResponseOk", pdf_handle |-> Handle("pdf", j)],
             [class_name |-> "PdfValidateResponseError", error |-> "not a pdf"],
             [class_name |-> "PdfValidateResponseVirus", virus |-> "EICAR"]}}
    [] o = "ImgEp.findDocuments" -> {[documents |-> d] : d \in DocLists}
    [] o = "ImgEp.extractQuadrilateral" -> {[img_handle |-> Handle("img", j)]}
    [] o = "PdfEp.orientation" ->
         {[orientations |-> <<>>, rotated_pdf_handle |-> Handle("pdf", j)]}
    [] OTHER -> {[pdf_handle |-> Handle("pdf", j)]}

Response(status, body) == [status |-> status, body |-> body]
\* a response, with the method of the request it answers
Answer(method, res) == [to |-> method, status |-> res.status, body |-> res.body]

ErrorBodies == {Json(Envelope1), Json(Envelope2), Json(Unexpected), NotJson}

\* answers to the POST that creates job j; an operation called on its own
\* sees every status with every body, a pipeline a selection of them
PostResponses(j) ==
  IF fpc = "endpoint"
    THEN {Response(s, b) : s \in Statuses,
                           b \in {Json([job_id |-> j]), Json([job_id |-> j, queue |-> 1])}
                                 \cup ErrorBodies}
    ELSE {Response(200, Json([job_id |-> j])), Response(204, Json([job_id |-> j])),
          Response(500, Json(Envelope1))}

\* answers to a status request for job j of operation o
PollResponses(o, j) ==
  IF fpc = "endpoint"
    THEN {Response(200, Json(d)) : d \in ServerData(o, j)}
           \cup {Response(200, Json(d @@ [trace |-> 1])) : d \in ServerData(o, j)}
           \cup {Response(200, b) : b \in {Json(Unexpected), Json(Envelope1), NotJson}}
           \cup {Response(202, NotJson)}
           \cup {Response(s, b) : s \in Statuses \ {200, 202}, b \in ErrorBodies}
    ELSE {Response(200, Json(d)) : d \in ServerData(o, j)}
           \cup {Response(200, Json(Unexpected)), Response(202, NotJson),
                 Response(500, Json(Envelope1)), Response(404, NotJson)}

(***************************************************************************)
(* FetchWrapper: issuing requests                                          *)
(***************************************************************************)
\* an endpoint wrapper is entered: wrap.post(path, req, TaskCreatedResponseSchema)
\* runs up to its fetch
StartJob(o, req) ==
  /\ op' = o /\ wpc' = "post" /\ task' = <<>>
  /\ inflight' = <<[method |-> "POST", path |-> <<EpPath(o)>>, body |-> <<req>>]>>
  /\ submitted' = Append(submitted, [op |-> o, path |-> EpPath(o), req |-> req])
  /\ retry_count' = 0 /\ n202' = 0 /\ nStatus' = 0

\* BeginPoll with a counter that the jobs submitted before have used up in
\* part: it starts at their number in place of zero
BeginPoll_budgetSpent(t) ==
  /\ wpc' = "poll" /\ task' = <<t>> /\ retry_count' = nSubmit
  /\ inflight' = <<[method |-> "GET", path |-> StatusPath(EpPath(op), t.job_id), body |-> <<>>]>>
  /\ n202' = 0 /\ nStatus' = 1
  /\ UNCHANGED <<op, submitted, fpc, frame, outcome>>

\* BeginPoll asking for the status at the submit path, the job id left out
BeginPoll_pathOnly(t) ==
  /\ wpc' = "poll" /\ task' = <<t>> /\ retry_count' = 0
  /\ inflight' = <<[method |-> "GET", path |-> <<EpPath(op)>>, body |-> <<>>]>>
  /\ n202' = 0 /\ nStatus' = 1
  /\ UNCHANGED <<op, submitted, fpc, frame, outcome>>

\* post returned the task: wrap.pollResult(`${path}/${task.job_id}`, schema)
\* runs up to its first fetch
BeginPoll(t) ==
  /\ wpc' = "poll" /\ task' = <<t>> /\ retry_count' = 0
  /\ inflight' = <<[method |-> "GET", path |-> StatusPath(EpPath(op), t.job_id), body |-> <<>>]>>
  /\ n202' = 0 /\ nStatus' = 1
  /\ UNCHANGED <<op, submitted, fpc, frame, outcome>>

\* 202 below the ceiling: the loop of pollResult issues the next fetch
KeepPolling ==
  /\ retry_count' = retry_count + 1
  /\ inflight' = <<[method |-> "GET", path |-> StatusPath(EpPath(op), task[1].job_id), body |-> <<>>]>>
  /\ n202' = n202 + 1 /\ nStatus' = nStatus + 1
  /\ UNCHANGED <<op, wpc, task, submitted, fpc, frame, outcome>>

(***************************************************************************)
(* The called method: suspending, completing, failing                      *)
(***************************************************************************)
Await(label, f, o, req) ==
  /\ fpc' = label /\ frame' = f /\ outcome' = Pending
  /\ StartJob(o, req)

Complete(f, v) ==
  /\ fpc' = "done" /\ frame' = f /\ outcome' = Returned(v)
  /\ wpc' = "none" /\ inflight' = <<>>
  /\ UNCHANGED <<op, task, submitted, pollVars>>

\* Fail handing the caller a value in place of the exception
Fail_returnsValue(e) ==
  /\ fpc' = "done" /\ frame' = frame /\ outcome' = Returned(Undefined)
  /\ wpc' = "none" /\ inflight' = <<>>
  /\ UNCHANGED <<op, task, submitted>>

\* an exception leaves every frame: nothing catches it
Fail(e) ==
  /\ fpc' = "done" /\ frame' = frame /\ outcome' = Thrown(e)
  /\ wpc' = "none" /\ inflight' = <<>>
  /\ UNCHANGED <<op, task, submitted>>

(***************************************************************************)
(* Flow.ocrImgHandle and Flow.ocrPdfHandle, cut at their awaits            *)
(***************************************************************************)
\* the conversion loop at its head, and the compose after it
ConvertNext(f) ==
  IF f.ci < Len(f.imgHandles)
    THEN Await("ocrImgHandle:img.ocrToPdf", f, "ImgEp.ocrToPdf",
               [img_handle |-> f.imgHandles[f.ci + 1], options |-> f.options.pdfOptions])
    ELSE Await("ocrImgHandle:pdf.compose", f, "PdfEp.compose",
               [pdfs |-> [i \in 1..Len(f.pdfHandles) |-> [pdf_handle |-> f.pdfHandles[i]]]])

\* AfterExtract without the fallback to the original image
AfterExtract_noFallback(f) ==
  ConvertNext([f EXCEPT !.ci = 0, !.pdfHandles = <<>>])

\* AfterExtract pushing the original image whatever was extracted
AfterExtract_alwaysOriginal(f) ==
  ConvertNext([f EXCEPT !.imgHandles = Append(@, f.imgHandle[1]),
                        !.ci = 0, !.pdfHandles = <<>>])

\* "No documents found or extraction disabled: process original image"
AfterExtract(f) ==
  ConvertNext([f EXCEPT !.imgHandles = IF Len(@) = 0 THEN <<f.imgHandle[1]>> ELSE @,
                        !.ci = 0, !.pdfHandles = <<>>])

\* ExtractNext submitting the extractions of all documents at once
ExtractNext_concurrent(f) ==
  IF f.di < Len(f.docs)
    THEN /\ fpc' = "ocrImgHandle:img.extractQuadrilateral" /\ frame' = f
         /\ outcome' = Pending
         /\ op' = "ImgEp.extractQuadrilateral" /\ wpc' = "post" /\ task' = <<>>
         /\ inflight' = <<[method |-> "POST", path |-> <<EpPath("ImgEp.extractQuadrilateral")>>,
                           body |-> <<[img_handle |-> f.imgHandle[1],
                                       quadrilateral |-> f.docs[f.di + 1].quadrilateral]>>]>>
         /\ submitted' =
              submitted \o [i \in 1..(Len(f.docs) - f.di) |->
                              [op |-> "ImgEp.extractQuadrilateral",
                               path |-> EpPath("ImgEp.extractQuadrilateral"),
                               req |-> [img_handle |-> f.imgHandle[1],
                                        quadrilateral |-> f.docs[f.di + i].quadrilateral]]]
         /\ retry_count' = 0 /\ n202' = 0 /\ nStatus' = 0
    ELSE AfterExtract(f)

\* ExtractNext giving up when detection found no document
ExtractNext_emptyAborts(f) ==
  IF Len(f.docs) = 0
    THEN Fail(HttpError(404)) /\ UNCHANGED pollVars
    ELSE IF f.di < Len(f.docs)
      THEN Await("ocrImgHandle:img.extractQuadrilateral", f, "ImgEp.extractQuadrilateral",
                 [img_handle |-> f.imgHandle[1],
                  quadrilateral |-> f.docs[f.di + 1].quadrilateral])
      ELSE AfterExtract(f)

\* ExtractNext turning to the conversions as soon as one document is extracted
ExtractNext_convertsEarly(f) ==
  IF f.di < Len(f.docs) /\ f.di = 0
    THEN Await("ocrImgHandle:img.extractQuadrilateral", f, "ImgEp.extractQuadrilateral",
               [img_handle |-> f.imgHandle[1],
                quadrilateral |-> f.docs[f.di + 1].quadrilateral])
    ELSE AfterExtract(f)

\* the extraction loop at its head
ExtractNext(f) ==
  IF f.di < Len(f.docs)
    THEN Await("ocrImgHandle:img.extractQuadrilateral", f, "ImgEp.extractQuadrilateral",
               [img_handle |-> f.imgHandle[1],
                quadrilateral |-> f.docs[f.di + 1].quadrilateral])
    ELSE AfterExtract(f)

\* ocrImgHandle detecting documents whatever the option says
ocrImgHandle_alwaysDetect(imgHandle, options) ==
  Await("ocrImgHandle:img.findDocuments",
        [NoFrame EXCEPT !.options = options, !.imgHandle = <<imgHandle>>,
                        !.extractDocument = TRUE],
        "ImgEp.findDocuments", [img_handle |-> imgHandle])

\* const { extractDocument = true, pdfOptions } = options
ocrImgHandle(imgHandle, options) ==
  LET f == [NoFrame EXCEPT !.options = options, !.imgHandle = <<imgHandle>>,
                           !.extractDocument =
                              IF options.extractDocument = <<>> THEN TRUE
                              ELSE options.extractDocument[1]]
  IN IF f.extractDocument
       THEN Await("ocrImgHandle:img.findDocuments", f, "ImgEp.findDocuments",
                  [img_handle |-> imgHandle])
       ELSE AfterExtract(f)

\* ocrPdfHandle starting at the OCR, the orientation left out
ocrPdfHandle_skipsOrientation(pdfHandle, options) ==
  Await("ocrPdfHandle:pdf.ocrToPdf",
        [NoFrame EXCEPT !.options = options, !.pdfHandle = <<pdfHandle>>],
        "PdfEp.ocrToPdf", [pdf_handle |-> pdfHandle])

ocrPdfHandle(pdfHandle, options) ==
  Await("ocrPdfHandle:pdf.orientation",
        [NoFrame EXCEPT !.options = options, !.pdfHandle = <<pdfHandle>>],
        "PdfEp.orientation", [pdf_handle |-> pdfHandle])

\* the called method resumes with the value v its await produced
Resume(v) ==
  CASE fpc = "endpoint" -> Complete(frame, v)
    [] fpc = "ocrImg:img.validate" ->
         LET r == okImg(v)
         IN IF r.kind = "throw" THEN Fail(r.error[1]) /\ UNCHANGED pollVars
            ELSE ocrImgHandle(r.value[1], frame.options)
    [] fpc = "ocrImgHandle:img.findDocuments" ->
         ExtractNext([frame EXCEPT !.docs = v.documents, !.di = 0])
    [] fpc = "ocrImgHandle:img.extractQuadrilateral" ->
         ExtractNext([frame EXCEPT !.imgHandles = Append(@, v.img_handle), !.di = @ + 1])
    [] fpc = "ocrImgHandle:img.ocrToPdf" ->
         ConvertNext([frame EXCEPT !.pdfHandles = Append(@, v.pdf_handle), !.ci = @ + 1])
    [] fpc = "ocrImgHandle:pdf.compose" ->
         Await("ocrImgHandle:pdf.orientation", frame, "PdfEp.orientation",
               [pdf_handle |-> v.pdf_handle])
    [] fpc = "ocrImgHandle:pdf.orientation" ->
         Await("ocrImgHandle:pdf.ocrToPdf", frame, "PdfEp.ocrToPdf",
               [pdf_handle |-> v.rotated_pdf_handle])
    [] fpc = "ocrImgHandle:pdf.ocrToPdf" ->
         Await("ocrImgHandle:pdf.optimize", frame, "PdfEp.optimize",
               [pdf_handle |-> v.pdf_handle])
    [] fpc = "ocrImgHandle:pdf.optimize" -> Complete(frame, v.pdf_handle)
    [] fpc = "ocrPdf:pdf.validate" ->
         LET r == okPdf(v)
         IN IF r.kind = "throw" THEN Fail(r.error[1]) /\ UNCHANGED pollVars
            ELSE ocrPdfHandle(r.value[1], frame.options)
    [] fpc = "ocrPdfHandle:pdf.orientation" ->
         Await("ocrPdfHandle:pdf.ocrToPdf",
               [frame EXCEPT !.pdfHandle = <<v.rotated_pdf_handle>>],
               "PdfEp.ocrToPdf", [pdf_handle |-> v.rotated_pdf_handle])
    [] fpc = "ocrPdfHandle:pdf.ocrToPdf" ->
         Await("ocrPdfHandle:pdf.optimize",
               [frame EXCEPT !.pdfHandle = <<v.pdf_handle>>],
               "PdfEp.optimize", [pdf_handle |-> v.pdf_handle])
    [] fpc = "ocrPdfHandle:pdf.optimize" -> Complete(frame, v.pdf_handle)

(***************************************************************************)
(* FetchWrapper: the response of a fetch arrives                           *)
(***************************************************************************)
\* the POST of FetchWrapper.request is answered
RequestResponse ==
  /\ wpc = "post"
  /\ \E res \in PostResponses(nSubmit + 1) :
       LET r == request(res.status, res.body, "TaskCreatedResponseSchema")
       IN /\ lastRes' = <<Answer("POST", res)>>
          /\ nSubmit' = nSubmit + 1
          /\ IF r.kind = "return" THEN BeginPoll(r.value[1])
             ELSE Fail(r.error[1]) /\ UNCHANGED pollVars
  /\ UNCHANGED <<callVars, returned, pureVars, dataVars>>

\* a GET of FetchWrapper.pollResult is answered
PollResponse ==
  /\ wpc = "poll"
  /\ \E res \in PollResponses(op, task[1].job_id) :
       LET r == pollResult(res.status, res.body, EpSchema(op), retry_count)
       IN /\ lastRes' = <<Answer("GET", res)>>
          /\ CASE r.kind = "continue" -> KeepPolling /\ UNCHANGED returned
               [] r.kind = "return" ->
                    /\ returned' = Append(returned, r.value[1])
                    /\ Resume(r.value[1])
               [] r.kind = "throw" ->
                    /\ Fail(r.error[1]) /\ UNCHANGED returned
                    /\ retry_count' = IF res.status = 202 THEN retry_count + 1 ELSE retry_count
                    /\ n202' = IF res.status = 202 THEN n202 + 1 ELSE n202
                    /\ nStatus' = nStatus
  /\ UNCHANGED <<callVars, nSubmit, pureVars, dataVars>>

(***************************************************************************)
(* The application calls the SDK                                           *)
(***************************************************************************)
\* the endpoint operations called directly, each with a request
DirectCalls ==
  {[op |-> "PdfEp.compose", req |-> [pdfs |-> <<[pdf_handle |-> Handle("pdf", 0)]>>]],
   [op |-> "ImgEp.validate", req |-> [unvalidated_file_handle |-> Handle("unvalidated", 0)]],
   [op |-> "HtmlEp.toPdf", req |-> [html_handle |-> Handle("html", 0)]]}

CallEndpoint ==
  /\ fpc \in {"idle", "done"} /\ calls < MaxCalls
  /\ \E c \in DirectCalls :
       /\ entry' = c.op
       /\ Await("endpoint", NoFrame, c.op, c.req)
  /\ calls' = calls + 1
  /\ lastRes' = <<>>
  /\ UNCHANGED <<returned, nSubmit, pureVars, dataVars>>

Next == CallEndpoint \/ RequestResponse \/ PollResponse

Spec == Init /\ [][Next]_vars

(***************************************************************************)
(* The application calls a Flow pipeline (SpecFlow)                        *)
(***************************************************************************)
OcrImgOptions ==
  {[extractDocument |-> e, pdfOptions |-> [dpi |-> 300]] : e \in {<<>>, <<TRUE>>, <<FALSE>>}}
OcrPdfOptions == {[password |-> "secret"]}

UploadError == [name |-> "Error", message |-> <<"Upload failed">>]

\* a call is admitted once per behaviour
Enter(method, label, options) ==
  /\ fpc = "idle" /\ calls = 0
  /\ entry' = method /\ calls' = 1
  /\ lastRes' = <<>>
  /\ UNCHANGED <<returned, nSubmit, pureVars, dataVars>>

\* Flow.ocrImg up to "await this.data.upload(file, onProgress)"
ocrImg ==
  \E options \in OcrImgOptions :
    /\ Enter("Flow.ocrImg", "ocrImg:data.upload", options)
    /\ fpc' = "ocrImg:data.upload"
    /\ frame' = [NoFrame EXCEPT !.options = options]
    /\ outcome' = Pending
    /\ UNCHANGED <<jobVars, pollVars>>

\* Flow.ocrPdf up to "await this.data.upload(file, onProgress)"
ocrPdf ==
  \E options \in OcrPdfOptions :
    /\ Enter("Flow.ocrPdf", "ocrPdf:data.upload", options)
    /\ fpc' = "ocrPdf:data.upload"
    /\ frame' = [NoFrame EXCEPT !.options = options]
    /\ outcome' = Pending
    /\ UNCHANGED <<jobVars, pollVars>>

\* the handle-based entry point validating its argument first
CallOcrImgHandle_validatesFirst ==
  \E options \in OcrImgOptions :
    /\ Enter("Flow.ocrImgHandle", "", options)
    /\ Await("ocrImg:img.validate", [NoFrame EXCEPT !.options = options],
             "ImgEp.validate", [unvalidated_file_handle |-> Handle("img", 0)])

CallOcrImgHandle ==
  \E options \in OcrImgOptions :
    /\ Enter("Flow.ocrImgHandle", "", options)
    /\ ocrImgHandle(Handle("img", 0), options)

CallOcrPdfHandle ==
  \E options \in OcrPdfOptions :
    /\ Enter("Flow.ocrPdfHandle", "", options)
    /\ ocrPdfHandle(Handle("pdf", 0), options)

\* the promise of DataEp.upload settles: the flow validates the uploaded
\* file, or the rejection leaves the flow
UploadSettles ==
  /\ fpc \in {"ocrImg:data.upload", "ocrPdf:data.upload"}
  /\ \E ok \in BOOLEAN :
       LET uploaded == [unvalidated_file_handle |-> Handle("unvalidated", 0)]
       IN IF ~ok THEN Fail(UploadError) /\ UNCHANGED pollVars
          ELSE IF fpc = "ocrImg:data.upload"
            THEN Await("ocrImg:img.validate", frame, "ImgEp.validate",
                       [unvalidated_file_handle |-> uploaded.unvalidated_file_handle])
            ELSE Await("ocrPdf:pdf.validate", frame, "PdfEp.validate",
                       [unvalidated_file_handle |-> uploaded.unvalidated_file_handle,
                        password |-> frame.options.password])
  /\ UNCHANGED <<callVars, returned, nSubmit, lastRes, pureVars, dataVars>>

FlowNext ==
  \/ ocrImg \/ CallOcrImgHandle \/ ocrPdf \/ CallOcrPdfHandle
  \/ UploadSettles \/ RequestResponse \/ PollResponse

SpecFlow == Init /\ [][FlowNext]_vars

(***************************************************************************)
(* DataEp: upload and download (specification SpecData)                    *)
(***************************************************************************)
\* bounds: the size of the uploaded file, the upload progress events of one
\* transfer, the chunks of one download and the length of a chunk
MaxSize == 2
MaxEvents == 2
MaxChunks == 2
MaxChunkLen == 2

\* a percentage, kept exact: num / den
Percent(loaded, total) == [num |-> loaded * 100, den |-> total]
Hundred == [num |-> 100, den |-> 1]
LessThan(p, q) == p.num * q.den < q.num * p.den

File(size) == [name |-> "image.jpg", size |-> size]

\* DataUploadRequestSchema: size is a positive integer
DataUploadRequestSchema(req) == req.size > 0

S3UploadError(status) ==
  [name |-> "Error", message |-> <<"S3 upload failed! status: ", status>>]
DownloadError(status) ==
  [name |-> "Error", message |-> <<"Download failed: ", status>>]
\* what fetch rejects with when the network fails
TypeError == [name |-> "TypeError", message |-> <<"fetch failed">>]

\* ok taking every answer for a success
ok_anyStatus(status) == status >= 100

\* response.ok
ok(status) == status >= 200 /\ status <= 299

\* the form of uploadWithXHR and uploadWithFetch: every post_header entry,
\* then the file
FormData(descriptor, file) == [fields |-> descriptor.post_header, file |-> file]

StorageStatuses == {200, 204, 403, 500}

\* onprogress forwarding every computable percentage, 100 included
onprogress_forwardsAll(event, called) ==
  IF event.lengthComputable
    THEN Append(called, Percent(event.loaded, event.total))
    ELSE called

\* xhr.upload.onprogress
onprogress(event, called) ==
  IF event.lengthComputable
    THEN LET percent == Percent(event.loaded, event.total)
         IN IF LessThan(percent, Hundred) THEN Append(called, percent) ELSE called
    ELSE called

\* onload taking 200 for the only success
onload_only200(status, descriptor) ==
  IF status = 200
    THEN Returned(descriptor)
    ELSE Thrown(S3UploadError(status))

\* xhr.onload; descriptor is the response of the first request
onload(status, descriptor) ==
  IF status >= 200 /\ status < 300
    THEN Returned(descriptor)
    ELSE Thrown(S3UploadError(status))

\* uploadWithFetch, from the response of its fetch on
uploadWithFetch(status, body, descriptor) ==
  IF ok(status)
    THEN Returned(descriptor)
    ELSE IF body.json /\ Matches("HttpErrorResponseSchema", body.data)
      THEN Thrown(fromHttpResponse(parse("HttpErrorResponseSchema", body.data)))
      ELSE Thrown(S3UploadError(status))

\* the upload target the service answers with
UploadDescriptor ==
  [post_url |-> "https://storage/upload",
   post_header |-> [key |-> "uploads/1", policy |-> "p"],
   unvalidated_file_handle |-> Handle("unvalidated", 1)]

UploadTargetResponses ==
  {Response(s, b) : s \in {200, 201, 204, 500},
                    b \in {Json(UploadDescriptor), Json(UploadDescriptor @@ [expires |-> 60]),
                           Json(Envelope1), NotJson}}

\* the answers of the storage to a direct transfer
StorageResponses ==
  {Response(s, b) : s \in StorageStatuses, b \in {NotJson, Json(Envelope1)}}

\* the promise of the DataEp method settles and the method is over
Settle(r) == settled' = r /\ dpc' = "done"

\* DataEp.upload(file, on_progress) up to the fetch of wrap.post
CallUpload ==
  /\ dpc = "idle"
  /\ \E x \in BOOLEAN, size \in 0..MaxSize :
       LET request_ == [size |-> size]
       IN /\ xhr' = x
          /\ transfer' = [NoTransfer EXCEPT !.method = "upload", !.file = <<File(size)>>]
          /\ IF DataUploadRequestSchema(request_)
               THEN /\ requests' = <<[method |-> "POST", url |-> "/data/upload",
                                      body |-> request_]>>
                    /\ dpc' = "upload:wrap.post" /\ settled' = Pending
               ELSE requests' = <<>> /\ Settle(Thrown(ZodError))
  /\ UNCHANGED <<progress, clientVars, pureVars>>

\* wrap.post("/data/upload") is answered; on success the transfer starts:
\* uploadWithXHR up to xhr.send, or uploadWithFetch up to its fetch followed
\* by on_progress(100)
UploadTargetResponse ==
  /\ dpc = "upload:wrap.post"
  /\ \E res \in UploadTargetResponses :
       LET r == request(res.status, res.body, "DataUploadResponseSchema")
       IN IF r.kind = "throw"
            THEN Settle(r) /\ UNCHANGED <<requests, transfer, progress>>
            ELSE /\ transfer' = [transfer EXCEPT !.response = r.value]
                 /\ requests' =
                      Append(requests,
                             [method |-> "POST", url |-> r.value[1].post_url,
                              body |-> FormData(r.value[1], transfer.file[1])])
                 /\ settled' = settled
                 /\ IF xhr
                      THEN dpc' = "upload:xhr" /\ progress' = progress
                      ELSE dpc' = "upload:fetch" /\ progress' = Append(progress, Hundred)
  /\ UNCHANGED <<xhr, clientVars, pureVars>>

\* a progress event of xhr.upload: loaded never decreases and never exceeds
\* total, the length of the request body
XhrUploadProgress ==
  /\ dpc = "upload:xhr" /\ transfer.events < MaxEvents
  /\ \E lengthComputable \in BOOLEAN,
        loaded \in transfer.loaded..transfer.file[1].size :
       /\ progress' = onprogress([lengthComputable |-> lengthComputable,
                                  loaded |-> IF lengthComputable THEN loaded ELSE 0,
                                  total |-> IF lengthComputable
                                              THEN transfer.file[1].size ELSE 0],
                                 progress)
       /\ transfer' = [transfer EXCEPT !.loaded = loaded, !.events = @ + 1]
  /\ UNCHANGED <<dpc, xhr, requests, settled, clientVars, pureVars>>

\* the load event: the promise of uploadWithXHR settles
XhrLoad ==
  /\ dpc = "upload:xhr"
  /\ \E status \in StorageStatuses :
       /\ settled' = onload(status, transfer.response[1])
       /\ transfer' = [transfer EXCEPT !.status = <<status>>]
  /\ dpc' = "upload:loadend"
  /\ UNCHANGED <<xhr, requests, progress, clientVars, pureVars>>

\* the error event (xhr.onerror): the request failed on the network
XhrError ==
  /\ dpc = "upload:xhr"
  /\ settled' = Thrown(S3UploadError(0))
  /\ transfer' = [transfer EXCEPT !.status = <<0>>]
  /\ dpc' = "upload:loadend"
  /\ UNCHANGED <<xhr, requests, progress, clientVars, pureVars>>

\* XhrLoadEnd without the call of on_progress
XhrLoadEnd_silent ==
  /\ dpc = "upload:loadend"
  /\ dpc' = "done"
  /\ UNCHANGED <<xhr, requests, transfer, progress, settled, clientVars, pureVars>>

\* the loadend event, which follows load or error: on_progress(100)
XhrLoadEnd ==
  /\ dpc = "upload:loadend"
  /\ progress' = Append(progress, Hundred)
  /\ dpc' = "done"
  /\ UNCHANGED <<xhr, requests, transfer, settled, clientVars, pureVars>>

\* the fetch of uploadWithFetch is answered, or rejects
FetchUploadResponse ==
  /\ dpc = "upload:fetch"
  /\ \/ \E res \in StorageResponses :
          /\ Settle(uploadWithFetch(res.status, res.body, transfer.response[1]))
          /\ transfer' = [transfer EXCEPT !.status = <<res.status>>,
                                          !.body = IF ok(res.status) THEN <<>> ELSE <<res.body>>]
     \/ Settle(Thrown(TypeError)) /\ transfer' = transfer
  /\ UNCHANGED <<xhr, requests, progress, clientVars, pureVars>>

\* the download methods: request path, response schema, type of the Blob
\* (downloadUnvalidated gives its Blob no type)
DataEpDownload ==
  [downloadPdf |-> [path |-> "/data/download/pdf",
                    schema |-> "DataDownloadPdfResponseSchema",
                    type |-> <<"application/pdf">>],
   downloadJpeg |-> [path |-> "/data/download/jpeg",
                     schema |-> "DataDownloadJpegResponseSchema",
                     type |-> <<"image/jpeg">>],
   downloadPng |-> [path |-> "/data/download/png",
                    schema |-> "DataDownloadPngResponseSchema",
                    type |-> <<"image/png">>],
   downloadOdt |-> [path |-> "/data/download/odt",
                    schema |-> "DataDownloadOdtResponseSchema",
                    type |-> <<"application/vnd.oasis.opendocument.text">>],
   downloadUnvalidated |-> [path |-> "/data/download/unvalidated",
                            schema |-> "DataDownloadUnvalidatedResponseSchema",
                            type |-> <<>>]]

Blob(bytes, type) == [bytes |-> bytes, type |-> type]

DownloadDescriptor ==
  [url |-> "https://storage/download",
   headers |-> [algorithm |-> "AES256", key |-> "k"]]

DownloadTargetResponses ==
  {Response(s, b) : s \in {200, 500},
                    b \in {Json(DownloadDescriptor), Json(Envelope1), NotJson}}

\* the chunks a body arrives in
Bytes == {0, 255}
Chunks == UNION {[1..n -> Bytes] : n \in 0..MaxChunkLen}

\* Content-Length header values, and parseInt(contentLength, 10) of them
ContentLengths == {"0", "2", "3", "chunked"}
NaN == -1
parseInt(str) ==
  CASE str = "0" -> 0 [] str = "2" -> 2 [] str = "3" -> 3 [] OTHER -> NaN

\* !total, for total a number, NaN or null (no header)
NoTotal(total) == total = <<>> \/ total[1] = 0 \/ total[1] = NaN

\* set writing every chunk at the start of the result, offset never advanced
RECURSIVE set_atZero(_, _, _)
set_atZero(result, chunks, offset) ==
  IF chunks = <<>> THEN result
  ELSE LET chunk == Head(chunks)
       IN set_atZero([i \in 1..Len(result) |->
                        IF i <= Len(chunk) THEN chunk[i] ELSE result[i]],
                     Tail(chunks), offset)

\* result.set(chunk, offset) for every chunk in turn
RECURSIVE set(_, _, _)
set(result, chunks, offset) ==
  IF chunks = <<>> THEN result
  ELSE LET chunk == Head(chunks)
       IN set([i \in 1..Len(result) |->
                 IF i > offset /\ i <= offset + Len(chunk)
                   THEN chunk[i - offset] ELSE result[i]],
              Tail(chunks), offset + Len(chunk))

\* "Combine chunks into single ArrayBuffer"
combine(chunks, loaded) == set([i \in 1..loaded |-> 0], chunks, 0)

\* DataEp.downloadPdf/Jpeg/Png/Odt/Unvalidated(req, on_progress) up to the
\* fetch of wrap.post
CallDownload ==
  /\ dpc = "idle"
  /\ \E m \in DOMAIN DataEpDownload :
       /\ transfer' = [NoTransfer EXCEPT !.method = m]
       /\ requests' = <<[method |-> "POST", url |-> DataEpDownload[m].path,
                         body |-> [handle |-> Handle(m, 0)]]>>
  /\ dpc' = "download:wrap.post"
  /\ UNCHANGED <<xhr, progress, settled, clientVars, pureVars>>

\* wrap.post is answered; on success downloadBinary runs up to its fetch
DownloadTargetResponse ==
  /\ dpc = "download:wrap.post"
  /\ \E res \in DownloadTargetResponses :
       LET r == request(res.status, res.body, DataEpDownload[transfer.method].schema)
       IN IF r.kind = "throw"
            THEN Settle(r) /\ UNCHANGED <<requests, transfer>>
            ELSE /\ transfer' = [transfer EXCEPT !.response = r.value]
                 /\ requests' = Append(requests,
                                       [method |-> "GET", url |-> r.value[1].url,
                                        body |-> [headers |-> r.value[1].headers]])
                 /\ dpc' = "download:fetch" /\ settled' = settled
  /\ UNCHANGED <<xhr, progress, clientVars, pureVars>>

\* the GET of downloadBinary is answered, by a status, possibly a
\* Content-Length header and possibly a body stream; without a usable total
\* or without a stream response.arrayBuffer() delivers the whole body
DownloadGetResponse ==
  /\ dpc = "download:fetch"
  /\ \E status \in StorageStatuses,
        contentLength \in {<<>>} \cup {<<l>> : l \in ContentLengths},
        body \in BOOLEAN, bytes \in Chunks :
       LET total == IF contentLength # <<>> THEN <<parseInt(contentLength[1])>> ELSE <<>>
       IN IF ~ok(status)
            THEN /\ Settle(Thrown(DownloadError(status)))
                 /\ transfer' = [transfer EXCEPT !.status = <<status>>]
            ELSE IF NoTotal(total) \/ ~body
              THEN /\ Settle(Returned(Blob(bytes, DataEpDownload[transfer.method].type)))
                   /\ transfer' = [transfer EXCEPT !.status = <<status>>, !.total = total]
              ELSE /\ transfer' = [transfer EXCEPT !.status = <<status>>, !.total = total,
                                                   !.reader = TRUE,
                                                   !.chunks = <<>>, !.loaded = 0]
                   /\ dpc' = "download:reader.read" /\ settled' = settled
  /\ UNCHANGED <<xhr, requests, progress, clientVars, pureVars>>

\* reader.read() settles: with a chunk, with done, or with a network failure
DownloadRead ==
  /\ dpc = "download:reader.read"
  /\ \/ /\ Len(transfer.chunks) < MaxChunks
        /\ \E value \in Chunks :
             LET loaded == transfer.loaded + Len(value)
             IN /\ transfer' = [transfer EXCEPT !.chunks = Append(@, value),
                                                !.loaded = loaded]
                /\ progress' = Append(progress, Percent(loaded, transfer.total[1]))
        /\ UNCHANGED <<dpc, settled>>
     \/ /\ Settle(Returned(Blob(combine(transfer.chunks, transfer.loaded),
                                DataEpDownload[transfer.method].type)))
        /\ UNCHANGED <<transfer, progress>>
     \/ /\ Settle(Thrown(TypeError))
        /\ UNCHANGED <<transfer, progress>>
  /\ UNCHANGED <<xhr, requests, clientVars, pureVars>>

DataNext ==
  \/ CallUpload \/ UploadTargetResponse
  \/ XhrUploadProgress \/ XhrLoad \/ XhrError \/ XhrLoadEnd
  \/ FetchUploadResponse
  \/ CallDownload \/ DownloadTargetResponse \/ DownloadGetResponse \/ DownloadRead

SpecData == Init /\ [][DataNext]_vars

(***************************************************************************)
(* Properties of the image pipeline (specification SpecFlow)               *)
(***************************************************************************)
\* the positions in the log of the submissions of operation o
JobsOf(o) == {k \in 1..Len(submitted) : submitted[k].op = o}
\* job k has returned its result
Done(k) == k <= Len(returned)
\* document detection was job k and returned the list docs
Detected(k, docs) ==
  /\ k \in JobsOf("ImgEp.findDocuments") /\ Done(k)
  /\ returned[k].documents = docs
\* the image handle ocrImgHandle was called with
OriginalImage == frame.imgHandle[1]

\* C9: when detection is enabled and returns no document, ocrImgHandle
\* submits no extraction job, exactly one image OCR-to-PDF conversion, on the
\* original image handle, and (once that conversion has returned) exactly one
\* compose request, whose list of PDFs is the one handle the conversion
\* returned.
C9_ZeroDocuments ==
  \A k \in 1..Len(submitted) :
    Detected(k, <<>>) =>
      /\ JobsOf("ImgEp.extractQuadrilateral") = {}
      /\ JobsOf("ImgEp.ocrToPdf") = {k + 1}
      /\ submitted[k + 1].req.img_handle = OriginalImage
      /\ JobsOf("PdfEp.compose") = IF Done(k + 1) THEN {k + 2} ELSE {}
      /\ Done(k + 1) =>
            submitted[k + 2].req = [pdfs |-> <<[pdf_handle |-> returned[k + 1].pdf_handle]>>]

C9_Witness ==
  /\ entry = "Flow.ocrImgHandle" /\ frame.extractDocument
  /\ Detected(1, <<>>)
  /\ outcome.kind = "return"
  /\ JobsOf("PdfEp.compose") = {3}

\* C10: when detection returns N >= 1 documents, ocrImgHandle submits exactly
\* N extraction jobs, the i-th on the original image handle with the i-th
\* quadrilateral, then exactly N conversion jobs, the i-th on the i-th
\* extracted handle, then one compose request listing the N conversion
\* results in detection order; the original image is not converted.  Each
\* job is submitted as soon as the one before it has returned.
C10_NDocuments ==
  \A k \in 1..Len(submitted) :
    (Done(k) /\ Detected(k, returned[k].documents) /\ Len(returned[k].documents) >= 1) =>
      LET docs == returned[k].documents
          N == Len(docs)
          \* jobs k+1 .. last have been submitted
          last == Len(submitted)
      IN /\ last = IF outcome.kind = "return" THEN Len(returned) ELSE Len(returned) + 1
         /\ JobsOf("ImgEp.extractQuadrilateral") = {j \in k + 1..k + N : j <= last}
         /\ JobsOf("ImgEp.ocrToPdf") = {j \in k + N + 1..k + 2 * N : j <= last}
         /\ JobsOf("PdfEp.compose") = {j \in {k + 2 * N + 1} : j <= last}
         /\ \A i \in 1..N :
              /\ k + i <= last =>
                    submitted[k + i].req =
                      [img_handle |-> OriginalImage, quadrilateral |-> docs[i].quadrilateral]
              /\ k + N + i <= last =>
                    /\ submitted[k + N + i].req.img_handle = returned[k + i].img_handle
                    /\ submitted[k + N + i].req.img_handle # OriginalImage
         /\ k + 2 * N + 1 <= last =>
              submitted[k + 2 * N + 1].req =
                [pdfs |-> [i \in 1..N |-> [pdf_handle |-> returned[k + N + i].pdf_handle]]]
         /\ outcome.kind = "return" => last = k + 2 * N + 4

C10_Witness ==
  /\ entry = "Flow.ocrImg"
  /\ Detected(2, <<Doc(2), Doc(1)>>)
  /\ outcome.kind = "return"
  /\ Len(submitted) = 10

(***************************************************************************)
(* Properties of both pipelines (specification SpecFlow)                   *)
(***************************************************************************)
\* ocrImgHandle has been entered (directly or from ocrImg)
InOcrImgHandle ==
  entry \in {"Flow.ocrImg", "Flow.ocrImgHandle"} /\ frame.imgHandle # <<>>

\* C11: with extractDocument = false ocrImgHandle never submits a
\* document-detection job nor an extraction job, and the only image it
\* converts is the original image handle, once; with the option omitted
\* detection is enabled: the first job of ocrImgHandle is the detection on
\* the original image handle.
C11_DetectionDisabled ==
  InOcrImgHandle =>
    /\ frame.options.extractDocument = <<FALSE>> =>
          /\ JobsOf("ImgEp.findDocuments") = {}
          /\ JobsOf("ImgEp.extractQuadrilateral") = {}
          /\ Cardinality(JobsOf("ImgEp.ocrToPdf")) = 1
          /\ \A k \in JobsOf("ImgEp.ocrToPdf") :
                submitted[k].req.img_handle = OriginalImage
    /\ frame.options.extractDocument = <<>> =>
          /\ Cardinality(JobsOf("ImgEp.findDocuments")) = 1
          /\ \A k \in JobsOf("ImgEp.findDocuments") :
                /\ submitted[k].req = [img_handle |-> OriginalImage]
                /\ \A j \in 1..(k - 1) : submitted[j].op = "ImgEp.validate"

C11_Witness ==
  /\ entry = "Flow.ocrImg"
  /\ frame.options.extractDocument = <<FALSE>>
  /\ outcome.kind = "return"
  /\ Len(submitted) = 6
  /\ submitted[2].op = "ImgEp.ocrToPdf"

\* job k ended without a result: its submit or its poll threw
Failed(k) == k = Len(submitted) /\ ~Done(k) /\ wpc = "none"

\* what FetchWrapper made of the response handled last
StepOutcome ==
  LET a == lastRes[1]
  IN IF a.to = "POST"
       THEN request(a.status, a.body, "TaskCreatedResponseSchema")
       ELSE pollResult(a.status, a.body, EpSchema(op),
                       IF a.status = 202 THEN retry_count - 1 ELSE retry_count)

\* the conversions are exactly job k, on the original image handle
ConvertsOriginalAt(k) ==
  /\ JobsOf("ImgEp.ocrToPdf") = {k}
  /\ submitted[k].req.img_handle = OriginalImage

\* C12 as stated: neither a failed detection job nor an empty detection
\* result aborts the image pipeline; in both cases it goes on to convert the
\* original image handle as the only entry of the fan-out.
C12_DetectionNeverAborts ==
  \A k \in JobsOf("ImgEp.findDocuments") :
    /\ Failed(k) => (outcome.kind # "throw" /\ ConvertsOriginalAt(k + 1))
    /\ Detected(k, <<>>) => ConvertsOriginalAt(k + 1)

\* C12 amended: an empty detection result does not abort the image pipeline,
\* which goes on to convert the original image handle as the only entry of
\* the fan-out; a failed detection job aborts it: the call throws the error
\* of that job and converts nothing.  Every compose request lists at least
\* one PDF.
C12_EmptyDetectionContinues ==
  /\ \A k \in JobsOf("ImgEp.findDocuments") :
       /\ Failed(k) =>
            /\ outcome = StepOutcome /\ outcome.kind = "throw"
            /\ JobsOf("ImgEp.ocrToPdf") = {}
       /\ Detected(k, <<>>) => ConvertsOriginalAt(k + 1)
  /\ \A k \in JobsOf("PdfEp.compose") : Len(submitted[k].req.pdfs) >= 1

C12_Witness ==
  /\ entry = "Flow.ocrImgHandle"
  /\ JobsOf("ImgEp.findDocuments") = {1} /\ Failed(1)
  /\ lastRes[1].to = "GET" /\ lastRes[1].status = 500
  /\ outcome = Thrown(fromHttpResponse(Envelope1))

\* the operations the two pipelines are built from
PipelineOps ==
  {"ImgEp.validate", "ImgEp.findDocuments", "ImgEp.extractQuadrilateral",
   "ImgEp.ocrToPdf", "PdfEp.validate", "PdfEp.compose", "PdfEp.orientation",
   "PdfEp.ocrToPdf", "PdfEp.optimize"}

\* the validation job was job k and its result is not an Ok
UnwrapFailed(k) ==
  /\ k = Len(submitted) /\ Done(k)
  /\ submitted[k].op \in {"ImgEp.validate", "PdfEp.validate"}
  /\ returned[k].response.class_name \notin {"ImgValidateResponseOk", "PdfValidateResponseOk"}

\* the error of the step that failed
StepError ==
  IF submitted = <<>> THEN Thrown(UploadError)
  ELSE IF Failed(Len(submitted)) THEN StepOutcome
  ELSE IF submitted[Len(submitted)].op = "ImgEp.validate"
    THEN okImg(returned[Len(returned)])
    ELSE okPdf(returned[Len(returned)])

\* the call ended with the handle the optimize job, its last job, returned
EndedWithFinalHandle ==
  /\ outcome.kind = "return"
  /\ submitted # <<>> /\ Len(returned) = Len(submitted)
  /\ submitted[Len(submitted)].op = "PdfEp.optimize"
  /\ outcome.value[1] = returned[Len(returned)].pdf_handle

\* the call ended with the error of its last step, with nothing under way
EndedWithError ==
  /\ outcome.kind = "throw" /\ outcome.value = <<>>
  /\ submitted = <<>> \/ Failed(Len(submitted)) \/ UnwrapFailed(Len(submitted))
  /\ outcome = StepError
  /\ wpc = "none" /\ inflight = <<>>

\* C13: an invocation of a pipeline ends either with the handle returned by
\* its final optimize job or with the error of the step that failed (the
\* upload, a job submit, a job poll, the validation unwrap), never with an
\* intermediate handle; whenever a step fails the call ends at once; once it
\* has ended with an error no request is outstanding and no job is submitted
\* any more; every request the pipeline issues is the POST of one of its
\* operations or a GET of that job's status, never a delete or a cleanup.
C13_FailureAborts ==
  /\ [](fpc = "done" <=> outcome.kind # "pending")
  /\ [](fpc = "done" => (EndedWithFinalHandle \/ EndedWithError))
  /\ []((submitted # <<>> /\ (Failed(Len(submitted)) \/ UnwrapFailed(Len(submitted))))
          => outcome.kind = "throw")
  /\ [](inflight # <<>> =>
          /\ op \in PipelineOps
          /\ \/ inflight[1].method = "POST" /\ inflight[1].path = <<EpPath(op)>>
             \/ /\ inflight[1].method = "GET"
                /\ inflight[1].path = StatusPath(EpPath(op), task[1].job_id))
  /\ [][outcome.kind = "throw" => UNCHANGED <<submitted, inflight, outcome>>]_vars

C13_Witness ==
  /\ entry = "Flow.ocrPdf"
  /\ UnwrapFailed(1)
  /\ outcome = Thrown(ValidationVirusException("EICAR"))
  /\ inflight = <<>>

\* job k was submitted right after job k - 1 of operation o had returned
Follows(k, o) == k > 1 /\ submitted[k - 1].op = o /\ Done(k - 1)
\* as soon as job k has returned, the next job is one of operation o
ThenComes(k, o) == Done(k) => (Len(submitted) > k /\ submitted[k + 1].op = o)

\* C17: both pipelines end with the same chain, each stage submitted once,
\* right after the stage before it returned: orientation on the handle
\* compose returned (image pipeline) or on the validated PDF handle (PDF
\* pipeline), PDF OCR on the rotated handle orientation returned, optimize on
\* the handle OCR returned; the handle optimize returned is the result of the
\* call.
C17_HandleChain ==
  /\ \A o \in {"PdfEp.orientation", "PdfEp.ocrToPdf", "PdfEp.optimize"} :
       Cardinality(JobsOf(o)) <= 1
  /\ \A k \in JobsOf("PdfEp.compose") : ThenComes(k, "PdfEp.orientation")
  /\ \A k \in JobsOf("PdfEp.orientation") :
       /\ CASE entry \in {"Flow.ocrImg", "Flow.ocrImgHandle"} ->
                 /\ Follows(k, "PdfEp.compose")
                 /\ submitted[k].req = [pdf_handle |-> returned[k - 1].pdf_handle]
            [] entry = "Flow.ocrPdf" ->
                 /\ Follows(k, "PdfEp.validate")
                 /\ submitted[k].req = [pdf_handle |-> returned[k - 1].response.pdf_handle]
            [] entry = "Flow.ocrPdfHandle" ->
                 k = 1 /\ submitted[k].req = [pdf_handle |-> Handle("pdf", 0)]
       /\ ThenComes(k, "PdfEp.ocrToPdf")
  /\ \A k \in JobsOf("PdfEp.ocrToPdf") :
       /\ Follows(k, "PdfEp.orientation")
       /\ submitted[k].req = [pdf_handle |-> returned[k - 1].rotated_pdf_handle]
       /\ ThenComes(k, "PdfEp.optimize")
  /\ \A k \in JobsOf("PdfEp.optimize") :
       /\ Follows(k, "PdfEp.ocrToPdf")
       /\ submitted[k].req = [pdf_handle |-> returned[k - 1].pdf_handle]
       /\ k = Len(submitted)
       /\ Done(k) => outcome = Returned(returned[k].pdf_handle)
  /\ outcome.kind = "return" => JobsOf("PdfEp.optimize") = {Len(submitted)}

C17_Witness ==
  /\ entry = "Flow.ocrPdf"
  /\ outcome = Returned(Handle("pdf", 4))
  /\ submitted[2].req = [pdf_handle |-> Handle("pdf", 1)]
  /\ submitted[4].req = [pdf_handle |-> Handle("pdf", 3)]

\* a job submission as the log keeps it
Job(o, req) == <<[op |-> o, path |-> EpPath(o), req |-> req]>>

\* the job ocrImgHandle(h, options) submits once its earlier jobs have
\* returned the values res, <<>> when it has none left
ImgHandleJob(h, options, res) ==
  LET detect == options.extractDocument # <<FALSE>>
      n == Len(res)
      N == IF detect /\ n >= 1 THEN Len(res[1].documents) ELSE 0
      \* the jobs before the conversions
      base == IF detect THEN 1 + N ELSE 0
      M == IF N = 0 THEN 1 ELSE N
      img(i) == IF N = 0 THEN h ELSE res[1 + i].img_handle
  IN CASE detect /\ n = 0 -> Job("ImgEp.findDocuments", [img_handle |-> h])
       [] detect /\ n >= 1 /\ n <= N ->
            Job("ImgEp.extractQuadrilateral",
                [img_handle |-> h, quadrilateral |-> res[1].documents[n].quadrilateral])
       [] n >= base /\ n < base + M ->
            Job("ImgEp.ocrToPdf",
                [img_handle |-> img(n - base + 1), options |-> options.pdfOptions])
       [] n = base + M ->
            Job("PdfEp.compose",
                [pdfs |-> [i \in 1..M |-> [pdf_handle |-> res[base + i].pdf_handle]]])
       [] n = base + M + 1 -> Job("PdfEp.orientation", [pdf_handle |-> res[n].pdf_handle])
       [] n = base + M + 2 ->
            Job("PdfEp.ocrToPdf", [pdf_handle |-> res[n].rotated_pdf_handle])
       [] n = base + M + 3 -> Job("PdfEp.optimize", [pdf_handle |-> res[n].pdf_handle])
       [] OTHER -> <<>>

\* the same for ocrPdfHandle(h, options)
PdfHandleJob(h, options, res) ==
  CASE Len(res) = 0 -> Job("PdfEp.orientation", [pdf_handle |-> h])
    [] Len(res) = 1 -> Job("PdfEp.ocrToPdf", [pdf_handle |-> res[1].rotated_pdf_handle])
    [] Len(res) = 2 -> Job("PdfEp.optimize", [pdf_handle |-> res[2].pdf_handle])
    [] OTHER -> <<>>

HandleJob(h, options, res) ==
  IF entry \in {"Flow.ocrImg", "Flow.ocrImgHandle"}
    THEN ImgHandleJob(h, options, res) ELSE PdfHandleJob(h, options, res)

\* from job `first` on the log is the request sequence of the handle-based
\* entry point called with h and the options of the call
IsHandleSequence(first, h) ==
  \A k \in first..Len(submitted) :
    <<submitted[k]>> = HandleJob(h, frame.options, SubSeq(returned, first, k - 1))

\* C18: the two entry points of a pipeline are equivalent after validation.
\* ocrImg and ocrPdf first upload, submitting no job meanwhile, then submit
\* the validation of the uploaded unvalidated handle as their first job, and
\* after unwrapping its result submit exactly the jobs ocrImgHandle, resp.
\* ocrPdfHandle, called with the validated handle and the same options
\* submits for the same job results; ocrImgHandle and ocrPdfHandle never
\* upload and never submit a validation.
C18_DualEntryPoints ==
  /\ entry \in {"Flow.ocrImgHandle", "Flow.ocrPdfHandle"} =>
       /\ fpc \notin {"ocrImg:data.upload", "ocrPdf:data.upload"}
       /\ JobsOf("ImgEp.validate") = {} /\ JobsOf("PdfEp.validate") = {}
       /\ IsHandleSequence(1, Handle(IF entry = "Flow.ocrImgHandle" THEN "img" ELSE "pdf", 0))
  /\ entry \in {"Flow.ocrImg", "Flow.ocrPdf"} =>
       /\ fpc \in {"ocrImg:data.upload", "ocrPdf:data.upload"} => submitted = <<>>
       /\ submitted # <<>> =>
            submitted[1].req.unvalidated_file_handle = Handle("unvalidated", 0)
               /\ submitted[1].op =
                     IF entry = "Flow.ocrImg" THEN "ImgEp.validate" ELSE "PdfEp.validate"
       /\ Len(submitted) >= 2 =>
            LET unwrapped_ == IF entry = "Flow.ocrImg"
                                THEN okImg(returned[1]) ELSE okPdf(returned[1])
            IN /\ unwrapped_.kind = "return"
               /\ IsHandleSequence(2, unwrapped_.value[1])
       /\ (Done(1) /\ returned[1].response.class_name
                        \in {"ImgValidateResponseOk", "PdfValidateResponseOk"})
            => Len(submitted) >= 2

C18_Witness ==
  /\ entry = "Flow.ocrImg" /\ outcome.kind = "return"
  /\ frame.options.extractDocument = <<TRUE>>
  /\ Len(submitted) = 8
  /\ <<submitted[8]>> = ImgHandleJob(Handle("img", 1), frame.options, SubSeq(returned, 2, 7))

\* C19: within one pipeline invocation at most one job is outstanding: every
\* job but the last submitted has returned its result, a job is submitted
\* only in the step in which the poll of the job before it returns, and the
\* one request in flight belongs to the last job; this holds inside the
\* extraction loop and the conversion loop as well.
C19_OneJobOutstanding ==
  /\ [](/\ Len(returned) <= Len(submitted) /\ Len(submitted) <= Len(returned) + 1
        /\ \A k \in 1..(Len(submitted) - 1) : Done(k)
        /\ Len(inflight) <= 1
        /\ inflight # <<>> =>
             /\ ~Done(Len(submitted)) /\ op = submitted[Len(submitted)].op
             /\ inflight[1].path[1] = submitted[Len(submitted)].path)
  /\ [][Len(submitted') # Len(submitted) =>
          /\ Len(submitted') = Len(submitted) + 1
          /\ Len(returned') = Len(submitted)]_vars

C19_Witness ==
  /\ entry = "Flow.ocrImgHandle"
  /\ Detected(1, <<Doc(1), Doc(2)>>)
  /\ Len(submitted) = 5 /\ Len(returned) = 4
  /\ submitted[3].op = "ImgEp.extractQuadrilateral"
  /\ submitted[5].op = "ImgEp.ocrToPdf"
  /\ inflight # <<>>

\* C29: in the image pipeline every extraction job is submitted before every
\* image-to-PDF conversion job; when the first conversion is submitted, one
\* extraction per detected document has been submitted and all of them have
\* returned; an extraction that fails leaves the pipeline without any
\* conversion job.
C29_ExtractionsBeforeConversions ==
  LET extractions == JobsOf("ImgEp.extractQuadrilateral")
      conversions == JobsOf("ImgEp.ocrToPdf")
  IN /\ \A e \in extractions, c \in conversions : e < c
     /\ conversions # {} =>
          /\ \A e \in extractions : Done(e)
          /\ \A k \in JobsOf("ImgEp.findDocuments") :
               Cardinality(extractions) = Len(returned[k].documents)
     /\ \A e \in extractions :
          Failed(e) => (conversions = {} /\ outcome.kind = "throw")

\* two documents were extracted and the first conversion is under way
C29_Witness ==
  /\ entry = "Flow.ocrImgHandle"
  /\ Detected(1, <<Doc(1), Doc(2)>>)
  /\ JobsOf("ImgEp.extractQuadrilateral") = {2, 3}
  /\ JobsOf("ImgEp.ocrToPdf") = {4}
  /\ Len(returned) = 3 /\ outcome = Pending

(***************************************************************************)
(* Properties of the transfers (specification SpecData)                    *)
(***************************************************************************)
\* the values on_progress received never decrease
NonDecreasing(called) ==
  \A i, j \in 1..Len(called) : i < j => ~LessThan(called[j], called[i])
\* they lie in [0, 100]
InRange(called) ==
  \A i \in 1..Len(called) : called[i].num >= 0 /\ ~LessThan(Hundred, called[i])
\* the last one is exactly 100
EndsAt100(called) ==
  /\ called # <<>>
  /\ ~LessThan(called[Len(called)], Hundred) /\ ~LessThan(Hundred, called[Len(called)])

\* the method is over, the transfer has delivered its last event, and the
\* promise resolved
Completed(method) ==
  /\ transfer.method \in method /\ dpc = "done" /\ settled.kind = "return"

\* C14: during an upload, under the XMLHttpRequest strategy (progress events
\* whose loaded never decreases nor exceeds total) and under the fetch
\* strategy, the values passed to on_progress are non-decreasing and lie in
\* [0, 100]; when the upload has completed (promise resolved, loadend
\* delivered) the last value passed is exactly 100.
C14_UploadProgress ==
  transfer.method = "upload" =>
    /\ NonDecreasing(progress) /\ InRange(progress)
    /\ Completed({"upload"}) => EndsAt100(progress)

C14_Witness ==
  /\ Completed({"upload"}) /\ xhr
  /\ progress = <<Percent(1, 2), Hundred>>
  /\ transfer.loaded = 2 /\ transfer.events = 2

Downloads == DOMAIN DataEpDownload

\* C15 as stated: when a download has completed, whether or not the response
\* advertised a Content-Length and whatever the chunks, the values passed to
\* on_progress are non-decreasing and the last one is exactly 100.
C15_DownloadProgressEndsAt100 ==
  Completed(Downloads) => (NonDecreasing(progress) /\ EndsAt100(progress))

\* C16: a download whose storage GET is answered with a status outside
\* 200..299 throws Error("Download failed: <status>"): on_progress is never
\* called, no chunk and no body is read and no Blob is returned.
C16_DownloadFailsOnStatus ==
  (transfer.method \in Downloads /\ transfer.status # <<>>
     /\ ~(transfer.status[1] \in 200..299)) =>
    /\ dpc = "done"
    /\ settled = Thrown(DownloadError(transfer.status[1]))
    /\ progress = <<>>
    /\ transfer.chunks = <<>> /\ transfer.total = <<>>
    /\ Len(requests) = 2

C16_Witness ==
  /\ transfer.method = "downloadOdt" /\ transfer.status = <<403>>
  /\ settled = Thrown(DownloadError(403))
  /\ requests[2].method = "GET"

\* the two requests of an upload
TargetRequest ==
  [method |-> "POST", url |-> "/data/upload", body |-> [size |-> transfer.file[1].size]]
StorageRequest ==
  [method |-> "POST", url |-> transfer.response[1].post_url,
   body |-> [fields |-> transfer.response[1].post_header, file |-> transfer.file[1]]]

\* the requests of an upload are the target request, then, only once it has
\* succeeded, one multipart POST to post_url with the post_header fields and
\* the file
UploadRequests ==
  /\ Len(requests) <= 2
  /\ requests # <<>> => requests[1] = TargetRequest
  /\ Len(requests) = 2 <=> transfer.response # <<>>
  /\ Len(requests) = 2 => requests[2] = StorageRequest
  /\ settled.kind = "return" =>
       (transfer.status # <<>> /\ transfer.status[1] \in 200..299)

\* C20 as stated: upload requests the target, then posts once to post_url; it
\* returns the descriptor of the first request exactly when the storage
\* answers 2xx and throws the upload error for any other storage status.
C20_UploadErrorOnEveryNon2xx ==
  transfer.method = "upload" =>
    /\ UploadRequests
    /\ transfer.status # <<>> =>
         settled = IF transfer.status[1] \in 200..299
                     THEN Returned(transfer.response[1])
                     ELSE Thrown(S3UploadError(transfer.status[1]))

\* C20 amended: upload requests the target for the file's size (a file of
\* size 0 is refused before any request), then, only once that request has
\* succeeded, posts once to post_url; it returns the descriptor of the first
\* request exactly when the storage answers 2xx; for any other storage
\* status it throws Error("S3 upload failed! status: ..."), except that the
\* fetch strategy throws the ApiErrorException of the body when the body is
\* an error envelope.
C20_UploadProtocol ==
  transfer.method = "upload" =>
    /\ UploadRequests
    /\ transfer.file[1].size = 0 => (requests = <<>> /\ settled = Thrown(ZodError))
    /\ transfer.status # <<>> =>
         settled =
           IF transfer.status[1] \in 200..299
             THEN Returned(transfer.response[1])
             ELSE IF ~xhr /\ transfer.body[1].json
                       /\ Matches("HttpErrorResponseSchema", transfer.body[1].data)
               THEN Thrown(fromHttpResponse(parse("HttpErrorResponseSchema",
                                                  transfer.body[1].data)))
               ELSE Thrown(S3UploadError(transfer.status[1]))

C20_Witness ==
  /\ transfer.method = "upload" /\ ~xhr
  /\ Len(requests) = 2 /\ requests[2] = StorageRequest
  /\ transfer.status = <<403>>
  /\ settled = Thrown(fromHttpResponse(Envelope1))

\* the calls of on_progress whose value is 100
IsHundred(p) == p.num = 100 * p.den
Hundreds(called) == {i \in 1..Len(called) : IsHundred(called[i])}

\* the storage has answered the transfer with a success
StorageSucceeded == transfer.status # <<>> /\ ok(transfer.status[1])

\* C22 as stated: upload passes 100 to on_progress only after the transfer
\* to the storage has completed successfully: never before the storage
\* response is received and never for a transfer that fails.
C22_HundredOnlyAfterSuccess ==
  (transfer.method = "upload" /\ Hundreds(progress) # {}) => StorageSucceeded

\* C23: the strategy is fixed by the probe made in the upload call; under
\* either strategy 100 is reported at most once, and exactly once when the
\* upload that started a transfer is over; under the fetch strategy nothing
\* but 100 is ever reported.
C23_SingleJump ==
  /\ [](transfer.method = "upload" =>
          /\ Cardinality(Hundreds(progress)) <= 1
          /\ (dpc = "done" /\ Len(requests) = 2) =>
               Cardinality(Hundreds(progress)) = 1
          /\ ~xhr => Hundreds(progress) = 1..Len(progress))
  /\ [][dpc # "idle" => xhr' = xhr]_vars

C23_Witness ==
  /\ transfer.method = "upload" /\ ~xhr /\ dpc = "done"
  /\ settled = Returned(UploadDescriptor)
  /\ progress = <<Hundred>>

\* the chunks one after the other, and the bytes received with the first k
RECURSIVE Concat(_)
Concat(chunks) == IF chunks = <<>> THEN <<>> ELSE Head(chunks) \o Concat(Tail(chunks))
Received(k) == Len(Concat(SubSeq(transfer.chunks, 1, k)))

\* C26: when the response of a download advertises a non-zero Content-Length
\* and its body is read as a stream, on_progress is called once per chunk
\* with cumulativeBytes / total * 100, and the method returns exactly the
\* chunks received, concatenated in arrival order, whatever the advertised
\* length.
C26_DownloadConcatenatesChunks ==
  (transfer.method \in Downloads /\ transfer.reader) =>
    /\ ~NoTotal(transfer.total)
    /\ Len(progress) = Len(transfer.chunks)
    /\ \A k \in 1..Len(progress) : progress[k] = Percent(Received(k), transfer.total[1])
    /\ settled.kind = "return" =>
         /\ settled.value[1].bytes = Concat(transfer.chunks)
         /\ Len(settled.value[1].bytes) = Received(Len(transfer.chunks))

\* three bytes arrive in two chunks under an advertised length of two
C26_Witness ==
  /\ transfer.method = "downloadPdf" /\ transfer.reader
  /\ transfer.total = <<2>>
  /\ transfer.chunks = << <<0>>, <<255, 0>> >>
  /\ progress = <<Percent(1, 2), Percent(3, 2)>>
  /\ settled = Returned(Blob(<<0, 255, 0>>, <<"application/pdf">>))

\* C28 as stated: when the promise of upload resolves, on_progress has
\* already been called with 100, under either strategy.
C28_HundredBeforeResolve ==
  (transfer.method = "upload" /\ settled.kind = "return") =>
    Hundreds(progress) # {}

(***************************************************************************)
(* Properties of the job client (specification Spec)                       *)
(***************************************************************************)
\* the response that was handled last answered a status request
PollAnswered == lastRes # <<>> /\ lastRes[1].to = "GET"
SubmitAnswered == lastRes # <<>> /\ lastRes[1].to = "POST"
ResultBody(b) == b.json /\ Matches(EpSchema(op), b.data)
EnvelopeBody(b) == b.json /\ Matches("HttpErrorResponseSchema", b.data)
TimedOut == outcome.kind = "throw" /\ outcome.error[1] = PollTimeout

\* C1: pollResult fails with the poll-timeout error exactly when the job has
\* answered 202 more than MAX_RETRIES (120) times: a 200 with a result body
\* after at most 120 answers of 202 is returned, the 121st 202 raises the
\* timeout, and one pollResult call never issues more than 121 status requests.
C1_TimeoutExactlyAboveCeiling ==
  /\ nStatus <= MAX_RETRIES + 1
  /\ n202 <= MAX_RETRIES + 1
  /\ TimedOut <=> n202 > MAX_RETRIES
  /\ (PollAnswered /\ lastRes[1].status = 200 /\ ResultBody(lastRes[1].body))
       => (n202 <= MAX_RETRIES /\ outcome.kind = "return")

C1_Witness == n202 = MAX_RETRIES + 1 /\ nStatus = MAX_RETRIES + 1 /\ TimedOut

\* C2: a 200 answer to a status request whose body matches the result schema
\* is terminal: pollResult returns exactly the parsed body and no status
\* request is outstanding or issued afterwards.
C2_Poll200IsTerminal ==
  (PollAnswered /\ lastRes[1].status = 200 /\ ResultBody(lastRes[1].body))
    => /\ outcome = Returned(parse(EpSchema(op), lastRes[1].body.data))
       /\ wpc = "none" /\ inflight = <<>>
       /\ nStatus = n202 + 1

C2_Witness ==
  /\ PollAnswered /\ lastRes[1].status = 200 /\ ResultBody(lastRes[1].body)
  /\ "trace" \in DOMAIN lastRes[1].body.data
  /\ n202 = MAX_RETRIES /\ outcome.kind = "return"

\* C3: an answer to a status request with a status other than 200 and 202
\* ends polling at once: the call throws ApiErrorException with the
\* envelope's status_code and api_error (code, name, message) when the body
\* parses as the error envelope, and otherwise the generic error with the
\* raw HTTP status; no further status request is issued.
C3_PollOtherStatusFails ==
  (PollAnswered /\ lastRes[1].status \notin {200, 202})
    => /\ wpc = "none" /\ inflight = <<>> /\ nStatus = n202 + 1
       /\ outcome.kind = "throw"
       /\ LET b == lastRes[1].body
              e == outcome.error[1]
          IN IF EnvelopeBody(b)
               THEN /\ e.name = "ApiErrorException"
                    /\ e.status_code = b.data.status_code
                    /\ e.api_error.code = b.data.api_error.code
                    /\ e.api_error.name = b.data.api_error.name
                    /\ e.api_error.message = b.data.api_error.message
               ELSE e = HttpError(lastRes[1].status)

C3_Witness ==
  /\ PollAnswered /\ lastRes[1].status = 500 /\ lastRes[1].body = Json(Envelope2)
  /\ n202 > 0
  /\ outcome.kind = "throw" /\ outcome.error[1].name = "ApiErrorException"
  /\ outcome.error[1].status_code = 400

\* a body that is a created-job descriptor
DescriptorBody(b) == b.json /\ Matches("TaskCreatedResponseSchema", b.data)
\* post returned the descriptor: the operation went on to poll the job
PostReturned ==
  /\ wpc = "poll" /\ outcome = Pending
  /\ task = <<[job_id |-> lastRes[1].body.data.job_id]>>
PostFailed == wpc = "none" /\ task = <<>> /\ outcome.kind = "throw"

\* C4 as stated: a submit answered with a created-job descriptor returns it
\* for every 2xx status and fails for every other status.
C4_SubmitSucceedsOnEvery2xx ==
  (SubmitAnswered /\ DescriptorBody(lastRes[1].body))
    => IF lastRes[1].status \in 200..299 THEN PostReturned ELSE PostFailed

\* C4 amended: a submit returns the created-job descriptor exactly when the
\* status is 200 or 201 and the body matches the descriptor schema; every
\* other answer, the other 2xx statuses included, makes the call fail.
C4_SubmitSucceedsOn200Or201 ==
  SubmitAnswered
    => IF lastRes[1].status \in {200, 201} /\ DescriptorBody(lastRes[1].body)
         THEN PostReturned ELSE PostFailed

C4_Witness ==
  /\ SubmitAnswered /\ lastRes[1].status = 201 /\ DescriptorBody(lastRes[1].body)
  /\ PostReturned

\* a step that issues a status request
StatusRequestIssued == nStatus' = nStatus + 1

\* C24: in every job operation a status request is issued only in the step
\* that receives the response to the request before it: the first one on the
\* successful response to the submit, to the submit path suffixed with the
\* job_id of that response, each later one on a 202 to the previous status
\* request and to the same path; when the submit fails none is issued.
C24_StatusRequestsFollowSubmit ==
  /\ [][StatusRequestIssued =>
          /\ Len(inflight) = 1 /\ Len(inflight') = 1 /\ lastRes' # <<>>
          /\ inflight'[1].method = "GET"
          /\ inflight'[1].path =
               <<submitted[Len(submitted)].path, "/", task'[1].job_id>>
          /\ IF nStatus = 0
               THEN /\ inflight[1].method = "POST"
                    /\ inflight[1].path = <<submitted[Len(submitted)].path>>
                    /\ lastRes'[1].to = "POST" /\ lastRes'[1].status \in {200, 201}
                    /\ task'[1].job_id = lastRes'[1].body.data.job_id
               ELSE /\ inflight[1] = inflight'[1] /\ task' = task
                    /\ lastRes'[1].to = "GET" /\ lastRes'[1].status = 202]_vars
  /\ []((wpc = "post" \/ PostFailed) => nStatus = 0)
  /\ [](Len(inflight) <= 1)

\* the second operation of the application polls its own job again
C24_Witness ==
  /\ calls = 2 /\ op = "PdfEp.compose" /\ Len(submitted) = 2
  /\ submitted[1].op = "ImgEp.validate"
  /\ nStatus = 2 /\ PollAnswered /\ lastRes[1].status = 202
  /\ inflight = <<[method |-> "GET", path |-> <<"/pdf/compose", "/", 2>>, body |-> <<>>]>>

\* C27: a 200 answer to a status request whose JSON body does not match the
\* result schema ends the call at once: the schema error is thrown to the
\* caller, no status request is outstanding or issued afterwards, the answer
\* is not counted as a pending attempt and the error is not the poll timeout.
C27_SchemaMismatchIsFatal ==
  (PollAnswered /\ lastRes[1].status = 200 /\ lastRes[1].body.json
     /\ ~ResultBody(lastRes[1].body))
    => /\ outcome = Thrown(ZodError)
       /\ wpc = "none" /\ inflight = <<>>
       /\ nStatus = n202 + 1 /\ retry_count = n202 /\ n202 <= MAX_RETRIES
       /\ ~TimedOut

\* the mismatching 200 comes after MAX_RETRIES answers of 202
C27_Witness ==
  /\ PollAnswered /\ lastRes[1].status = 200 /\ lastRes[1].body = Json(Envelope1)
  /\ op = "ImgEp.validate"
  /\ n202 = MAX_RETRIES /\ nStatus = MAX_RETRIES + 1
  /\ outcome = Thrown(ZodError)

\* a step in which pollResult is called
PollResultCalled == wpc = "post" /\ wpc' = "poll"

MaxHandles == 2
Messages == {"decoding failed", "EICAR-Test-File"}
UnwrapKinds == {"Img", "Pdf", "Html", "Email"}
Tags == {"Ok", "Error", "Virus"}

ClassName(K, tag) ==
  CASE K = "Img" /\ tag = "Ok" -> "ImgValidateResponseOk"
    [] K = "Img" /\ tag = "Error" -> "ImgValidateResponseError"
    [] K = "Img" /\ tag = "Virus" -> "ImgValidateResponseVirus"
    [] K = "Img" /\ tag = "Other" -> "ImgValidateResponsePending"
    [] K = "Pdf" /\ tag = "Ok" -> "PdfValidateResponseOk"
    [] K = "Pdf" /\ tag = "Error" -> "PdfValidateResponseError"
    [] K = "Pdf" /\ tag = "Virus" -> "PdfValidateResponseVirus"
    [] K = "Pdf" /\ tag = "Other" -> "PdfValidateResponsePending"
    [] K = "Html" /\ tag = "Ok" -> "HtmlValidateResponseOk"
    [] K = "Html" /\ tag = "Error" -> "HtmlValidateResponseError"
    [] K = "Html" /\ tag = "Virus" -> "HtmlValidateResponseVirus"
    [] K = "Html" /\ tag = "Other" -> "HtmlValidateResponsePending"
    [] K = "Email" /\ tag = "Ok" -> "EmailValidateResponseOk"
    [] K = "Email" /\ tag = "Error" -> "EmailValidateResponseError"
    [] K = "Email" /\ tag = "Virus" -> "EmailValidateResponseVirus"
    [] K = "Email" /\ tag = "Other" -> "EmailValidateResponsePending"

OuterName(K) ==
  CASE K = "Img" -> "ImgValidateResponse" [] K = "Pdf" -> "PdfValidateResponse"
    [] K = "Html" -> "HtmlValidateResponse" [] K = "Email" -> "EmailValidateResponse"

\* the variant of kind K with the given tag and payload
Variant(K, tag, payload) ==
  CASE tag = "Ok" /\ K = "Img" -> [class_name |-> ClassName(K, tag), img_handle |-> payload]
    [] tag = "Ok" /\ K = "Pdf" -> [class_name |-> ClassName(K, tag), pdf_handle |-> payload]
    [] tag = "Ok" /\ K = "Html" -> [class_name |-> ClassName(K, tag), html_handle |-> payload]
    [] tag = "Ok" /\ K = "Email" -> [class_name |-> ClassName(K, tag), email_handle |-> payload]
    [] tag = "Error" -> [class_name |-> ClassName(K, tag), error |-> payload]
    [] tag = "Virus" -> [class_name |-> ClassName(K, tag), virus |-> payload]
    [] tag = "Other" -> [class_name |-> ClassName(K, tag), detail |-> payload]

ValidateResponse(K, tag, payload) ==
  [class_name |-> OuterName(K), response |-> Variant(K, tag, payload)]

Payloads(tag) ==
  IF tag = "Ok" THEN {Handle("validated", n) : n \in 1..MaxHandles} ELSE Messages

ValidationResponses ==
  {ValidateResponse(K, d.tag, d.payload) :
     K \in UnwrapKinds,
     d \in UNION {{[tag |-> t, payload |-> x] : x \in Payloads(t)} : t \in Tags \cup {"Other"}}}

UnwrapperOf(K) ==
  CASE K = "Img" -> "okImg" [] K = "Pdf" -> "okPdf"
    [] K = "Html" -> "okHtml" [] K = "Email" -> "okEmail"

Unwrap(K, r) ==
  CASE K = "Img" -> okImg(r) [] K = "Pdf" -> okPdf(r)
    [] K = "Html" -> okHtml(r) [] K = "Email" -> okEmail(r)

UnwrapInit ==
  /\ response \in {<<r>> : r \in ValidationResponses}
  /\ unwrapper = "none" /\ unwrapped = Pending
  /\ ClientInit /\ QuadIdle /\ DataIdle /\ EmailIdle

ApplyUnwrapper(K) ==
  /\ unwrapper = "none"
  /\ unwrapper' = UnwrapperOf(K)
  /\ unwrapped' = Unwrap(K, response[1])
  /\ UNCHANGED <<response, clientVars, quadVars, dataVars, emailVars>>

CallOkImg == ApplyUnwrapper("Img")
CallOkPdf == ApplyUnwrapper("Pdf")
CallOkHtml == ApplyUnwrapper("Html")
CallOkEmail == ApplyUnwrapper("Email")

UnwrapNext == CallOkImg \/ CallOkPdf \/ CallOkHtml \/ CallOkEmail

SpecUnwrap == UnwrapInit /\ [][UnwrapNext]_vars

\* the payload of a variant of kind K
HandleOf(K, v) ==
  CASE K = "Img" -> v.img_handle [] K = "Pdf" -> v.pdf_handle
    [] K = "Html" -> v.html_handle [] K = "Email" -> v.email_handle

ThrewWith(name, message) ==
  /\ unwrapped.kind = "throw"
  /\ unwrapped.error[1].name = name
  /\ unwrapped.error[1].message = message

\* C5: each unwrapper maps a validation result of its kind by its tag: Ok
\* returns the enclosed handle unmodified, Error throws the validation error
\* with the original message, Virus throws the virus error with the original
\* message.
C5_UnwrapByTag ==
  \A K \in UnwrapKinds :
    unwrapper = UnwrapperOf(K) =>
      LET v == response[1].response
      IN /\ v.class_name = ClassName(K, "Ok")
              => unwrapped = Returned(HandleOf(K, v))
         /\ v.class_name = ClassName(K, "Error")
              => ThrewWith("ValidationErrorException", v.error)
         /\ v.class_name = ClassName(K, "Virus")
              => ThrewWith("ValidationVirusException", v.virus)

C5_Witness ==
  /\ unwrapper = "okHtml"
  /\ response[1].response = Variant("Html", "Virus", "EICAR-Test-File")
  /\ ThrewWith("ValidationVirusException", "EICAR-Test-File")

\* the tag is none of the three the applied unwrapper knows
UnknownTag ==
  \E K \in UnwrapKinds :
    /\ unwrapper = UnwrapperOf(K)
    /\ response[1].response.class_name \notin {ClassName(K, t) : t \in Tags}

\* C6 as stated: on an unrecognized tag the unwrapper throws ValidationError
\* with the message "unknown validation response type".
C6_UnknownTagLowercaseMessage ==
  UnknownTag => ThrewWith("ValidationErrorException", "unknown validation response type")

\* C6 amended: on an unrecognized tag every unwrapper returns no handle and
\* throws ValidationErrorException; okHtml and okEmail throw it with the
\* message "Unknown validation response type".
C6_UnknownTagThrows ==
  UnknownTag =>
    /\ unwrapped.kind = "throw"
    /\ unwrapped.error[1].name = "ValidationErrorException"
    /\ unwrapper \in {"okHtml", "okEmail"}
         => unwrapped.error[1].message = "Unknown validation response type"

C6_Witness ==
  /\ unwrapper = "okHtml"
  /\ response[1].response.class_name = "EmailValidateResponseOk"
  /\ ThrewWith("ValidationErrorException", "Unknown validation response type")

\* C7: the four unwrappers are the same three-way branch: applied to
\* corresponding responses (same tag and payload under the renaming of the
\* kind) any two of them produce the same outcome.
C7_UnwrappersCorrespond ==
  \A K1 \in UnwrapKinds :
    unwrapper = UnwrapperOf(K1) =>
      \A t \in Tags : \A x \in Payloads(t) :
        response[1] = ValidateResponse(K1, t, x) =>
          \A K2 \in UnwrapKinds : unwrapped = Unwrap(K2, ValidateResponse(K2, t, x))

C7_Witness ==
  /\ unwrapper = "okEmail"
  /\ response[1] = ValidateResponse("Email", "Error", "decoding failed")
  /\ unwrapped = okHtml(ValidateResponse("Html", "Error", "decoding failed"))
  /\ unwrapped.kind = "throw"

(***************************************************************************)
(* collectUnvalidatedFileHandles over an email tree (SpecEmail)            *)
(***************************************************************************)
\* emails nest as attachments down to MaxDepth levels below the root, and an
\* email has up to MaxAttachments attachments
MaxDepth == 1
MaxAttachments == 2

\* the file handles of the email at level d are numbered apart from those of
\* every other level: k = 1 the text body, 2 the html body, 2 + i attachment i
UnvalidatedFileHandle(d, k) == Handle("unvalidated", d * (MaxAttachments + 2) + k)

EmailAttachment(handle, validated) ==
  [class_name |-> "EmailAttachment", unvalidated_file_handle |-> handle,
   validated |-> validated]

EmailHandle(text_body, html_body, attachments) ==
  [class_name |-> "EmailHandle", text_body |-> text_body, html_body |-> html_body,
   attachments |-> attachments]

\* the emails whose nesting is at most d levels deep; a nullable field is a
\* sequence of at most one value
RECURSIVE Emails(_)
Emails(d) ==
  LET Nested == IF d = 0 THEN {}
                ELSE {<<ValidateResponse("Email", "Ok", e)>> : e \in Emails(d - 1)}
      Validated == {<<>>,
                    <<ValidateResponse("Pdf", "Ok", Handle("validated", 1))>>,
                    <<ValidateResponse("Email", "Error", "decoding failed")>>}
                     \cup Nested
      Attachments ==
        UNION {{[i \in 1..n |-> EmailAttachment(UnvalidatedFileHandle(d, 2 + i), v[i])] :
                  v \in [1..n -> Validated]} : n \in 0..MaxAttachments}
  IN {EmailHandle(t, h, a) :
        t \in {<<>>, <<UnvalidatedFileHandle(d, 1)>>},
        h \in {<<>>, <<UnvalidatedFileHandle(d, 2)>>},
        a \in Attachments}

\* validated?.class_name === "EmailValidateResponse" &&
\* validated.response.class_name === "EmailValidateResponseOk"
IsNestedEmail(validated) ==
  /\ validated # <<>>
  /\ validated[1].class_name = "EmailValidateResponse"
  /\ validated[1].response.class_name = "EmailValidateResponseOk"

\* handles after the for-of loop over email.attachments has run from index i
RECURSIVE collectUnvalidatedFileHandles(_)
collectUnvalidatedFileHandles(e) ==
  LET RECURSIVE loop(_, _)
      loop(handles, i) ==
        IF i > Len(e.attachments) THEN handles
        ELSE LET attachment == e.attachments[i]
                 validated == attachment.validated
                 pushed == Append(handles, attachment.unvalidated_file_handle)
             IN loop(IF IsNestedEmail(validated)
                       THEN pushed \o collectUnvalidatedFileHandles(
                                        validated[1].response.email_handle)
                       ELSE pushed,
                     i + 1)
  IN loop(<<>>, 1)

EmailInit ==
  /\ email \in {<<e>> : e \in Emails(MaxDepth)}
  /\ collected = Pending
  /\ ClientInit /\ UnwrapIdle /\ QuadIdle /\ DataIdle

CallCollectUnvalidatedFileHandles ==
  /\ collected = Pending
  /\ collected' = Returned(collectUnvalidatedFileHandles(email[1]))
  /\ email' = email
  /\ UNCHANGED <<clientVars, unwrapVars, quadVars, dataVars>>

EmailNext == CallCollectUnvalidatedFileHandles

SpecEmail == EmailInit /\ [][EmailNext]_vars

Range(seq) == {seq[i] : i \in 1..Len(seq)}

\* the nested emails of e that validated successfully
NestedEmails(e) ==
  {e.attachments[i].validated[1].response.email_handle :
     i \in {j \in 1..Len(e.attachments) : IsNestedEmail(e.attachments[j].validated)}}

\* the attachment handles of e and of its nested emails
RECURSIVE AttachmentHandles(_)
AttachmentHandles(e) ==
  {e.attachments[i].unvalidated_file_handle : i \in 1..Len(e.attachments)}
    \cup UNION {AttachmentHandles(n) : n \in NestedEmails(e)}

\* the body handles of e and of its nested emails
RECURSIVE BodyHandles(_)
BodyHandles(e) ==
  Range(e.text_body) \cup Range(e.html_body)
    \cup UNION {BodyHandles(n) : n \in NestedEmails(e)}

\* C21 as stated: collectUnvalidatedFileHandles(email) returns the text_body
\* handle, the html_body handle and every attachment's unvalidated file
\* handle of the email and of every nested email that validated successfully.
C21_CollectsBodiesAndAttachments ==
  collected.kind = "return" =>
    Range(collected.value[1]) = BodyHandles(email[1]) \cup AttachmentHandles(email[1])

\* what the function returns: the attachment handles alone, without any body
C21_CollectsAttachmentsOnly ==
  collected.kind = "return" =>
    Range(collected.value[1]) = AttachmentHandles(email[1])

(***************************************************************************)
(* QuadrilateralUtils.fromUnsorted (SpecQuad)                              *)
(***************************************************************************)
\* coordinates k stand for the relative positions k / GridMax in [0, 1]
GridMax == 3
RelativePositions == [x : 0..GridMax, y : 0..GridMax]

\* the refinement of QuadrilateralSchema
QuadrilateralSchema(data) ==
  /\ data.top_left.x <= data.top_right.x
  /\ data.bottom_left.x <= data.bottom_right.x
  /\ data.top_left.y <= data.bottom_left.y
  /\ data.top_right.y <= data.bottom_right.y

\* Array.prototype.sort with the comparator (a, b) => a[field] - b[field]:
\* a stable sort, elements the comparator calls equal keep their order
InsertBy(sorted, p, field) ==
  LET k == Cardinality({i \in 1..Len(sorted) : sorted[i][field] - p[field] <= 0})
  IN SubSeq(sorted, 1, k) \o <<p>> \o SubSeq(sorted, k + 1, Len(sorted))

RECURSIVE sort(_, _)
sort(arr, field) ==
  IF arr = <<>> THEN <<>>
  ELSE InsertBy(sort(SubSeq(arr, 1, Len(arr) - 1), field), arr[Len(arr)], field)

\* fromUnsorted taking the first two points as the top pair, the sort by y left out
fromUnsorted_noSortByY(pts) ==
  IF Len(pts) # 4
    THEN Thrown([name |-> "Error", message |-> <<"Quadrilateral must have 4 points">>])
    ELSE LET sortedTop == sort(SubSeq(pts, 1, 2), "x")
             sortedBottom == sort(SubSeq(pts, 3, 4), "x")
         IN Returned([top_left |-> sortedTop[1], top_right |-> sortedTop[2],
                      bottom_right |-> sortedBottom[2], bottom_left |-> sortedBottom[1]])

fromUnsorted(pts) ==
  IF Len(pts) # 4
    THEN Thrown([name |-> "Error", message |-> <<"Quadrilateral must have 4 points">>])
    ELSE LET sortedByY == sort(pts, "y")
             top == SubSeq(sortedByY, 1, 2)
             bottom == SubSeq(sortedByY, 3, Len(sortedByY))
             sortedTop == sort(top, "x")
             sortedBottom == sort(bottom, "x")
         IN Returned([top_left |-> sortedTop[1], top_right |-> sortedTop[2],
                      bottom_right |-> sortedBottom[2], bottom_left |-> sortedBottom[1]])

QuadInit ==
  /\ points \in [1..4 -> RelativePositions] \cup [1..3 -> RelativePositions]
  /\ quadrilateral = Pending
  /\ ClientInit /\ UnwrapIdle /\ DataIdle /\ EmailIdle

\* the array is copied before it is sorted: the argument is left as it was
CallFromUnsorted ==
  /\ quadrilateral = Pending
  /\ quadrilateral' = fromUnsorted(points)
  /\ points' = points
  /\ UNCHANGED <<clientVars, unwrapVars, dataVars, emailVars>>

QuadNext == CallFromUnsorted

SpecQuad == QuadInit /\ [][QuadNext]_vars

\* C8: fromUnsorted, given four points in any order, returns a quadrilateral
\* that satisfies the ordering predicate QuadrilateralSchema refines on, ties
\* between coordinates included.
C8_FromUnsortedOrdered ==
  /\ (quadrilateral # Pending /\ Len(points) = 4) => quadrilateral.kind = "return"
  /\ quadrilateral.kind = "return" => QuadrilateralSchema(quadrilateral.value[1])

\* three of the four points tie on y and arrive with x decreasing
C8_Witness ==
  /\ quadrilateral.kind = "return"
  /\ Len(points) = 4
  /\ points[1].y = points[2].y /\ points[2].y = points[3].y /\ points[4].y < points[1].y
  /\ points[1].x > points[2].x /\ points[2].x > points[3].x
  /\ QuadrilateralSchema(quadrilateral.value[1])

\* no two of the four points share an x or a y coordinate
DistinctCoordinates(pts) ==
  /\ Len(pts) = 4
  /\ \A i, j \in 1..4 : i # j => (pts[i].x # pts[j].x /\ pts[i].y # pts[j].y)

\* the points in the order perm puts them in
Reordered(pts, perm) == [i \in 1..Len(pts) |-> pts[perm[i]]]

Corners(q) == {q.top_left, q.top_right, q.bottom_right, q.bottom_left}

\* C30: when no two of the four points share an x or a y coordinate,
\* fromUnsorted returns the same quadrilateral for all 24 orderings of the
\* points, its four corners are exactly the four points, and the array it
\* was given is left as it was.
C30_FromUnsortedOrderIndependent ==
  /\ []((quadrilateral # Pending /\ DistinctCoordinates(points)) =>
          /\ quadrilateral.kind = "return"
          /\ \A perm \in Permutations(1..4) :
               fromUnsorted(Reordered(points, perm)) = quadrilateral
          /\ Corners(quadrilateral.value[1]) = {points[i] : i \in 1..4})
  /\ [][points' = points]_vars

\* the four points arrive bottom right first and top left last
C30_Witness ==
  /\ DistinctCoordinates(points)
  /\ points = <<[x |-> 3, y |-> 3], [x |-> 0, y |-> 2], [x |-> 2, y |-> 0], [x |-> 1, y |-> 1]>>
  /\ quadrilateral = Returned([top_left |-> [x |-> 1, y |-> 1],
                               top_right |-> [x |-> 2, y |-> 0],
                               bottom_right |-> [x |-> 3, y |-> 3],
                               bottom_left |-> [x |-> 0, y |-> 2]])

====
